---- MODULE Spec2Model ----
(***************************************************************************)
(* The log delivery engine of the Monita logger (src/logger.ts): the       *)
(* buffer, the flush scheduler, the per-entry retry loops and shutdown.    *)
(*                                                                         *)
(* JavaScript runs one handler at a time.  Every action below is one       *)
(* handler run to its next suspension point, together with the promise     *)
(* continuations (microtasks) it releases: a response that settles a send  *)
(* loop also settles Promise.all and runs flush()'s catch/finally before   *)
(* any timer or I/O callback can run.                                      *)
(***************************************************************************)
EXTENDS Integers, Sequences, FiniteSets, TLC

\* ------------------------------------------------------------------ bounds
\* Number of log calls that are admitted to the buffer in one behaviour.
MaxLogs == 3
\* Number of flush() invocations that proceed past the guard.
MaxFlushes == 2
\* Number of requests (posts) issued in one behaviour, over all send loops.
MaxRequests == 4
\* The configuration the instance is constructed with (LoggerConfig).
batchSize == 2
maxRetries == 2
\* Largest retryCount getExponentialBackoffDelay is called with.
MaxRetryCount == 6
\* Math.random() is drawn from {0, 1/JitterSteps, ..., (JitterSteps-1)/JitterSteps}.
JitterSteps == 4
\* Longest string, in characters, the string functions are called with.
MaxStringLen == 6
\* Number of values (objects, arrays, strings) in a payload graph.
MaxNodes == 2
\* Longest list of custom rules.
MaxCustomRules == 2
\* Deepest stack of pushed contexts.
MaxContextDepth == 2
\* The rate limiter's maxEvents and timeWindow, and the last clock reading of
\* its runs, in units of time.
maxEvents == 2
timeWindow == 2
MaxNow == 4

\* ------------------------------------------------------------------ levels
LogLevels == {"trace", "debug", "info", "warn", "error", "fatal"}

levelOrder(l) ==
    CASE l = "trace" -> 0
      [] l = "debug" -> 1
      [] l = "info"  -> 2
      [] l = "warn"  -> 3
      [] l = "error" -> 4
      [] l = "fatal" -> 5

\* A comparison that rejects the minimum level itself.
shouldLogStrict(currentLevel, minLevel) == levelOrder(currentLevel) > levelOrder(minLevel)

shouldLog(currentLevel, minLevel) == levelOrder(currentLevel) >= levelOrder(minLevel)

minLogLevel == "info"

\* The levels the model's log calls are made with.
InputLevels == {"debug", "info"}

\* ----------------------------------------------------------------- backoff
maxDelayMs == 60000

\* Delays are counted in units of 1/DelayUnit ms, which makes the jitter
\* random * baseDelay * 0.1 an integer for every random = k/JitterSteps.
DelayUnit == 10 * JitterSteps

RECURSIVE Pow2(_)
Pow2(n) == IF n = 0 THEN 1 ELSE 2 * Pow2(n - 1)

Min(a, b) == IF a <= b THEN a ELSE b

\* A jitter of up to 150% of the base delay.
getExponentialBackoffDelayWideJitter(retryCount, initialDelayMs, k) ==
    LET baseDelay == initialDelayMs * Pow2(retryCount) * DelayUnit
        jitter == k * initialDelayMs * Pow2(retryCount) * 15
    IN Min(baseDelay + jitter, maxDelayMs * DelayUnit)

\* getExponentialBackoffDelay(retryCount, initialDelayMs) when Math.random()
\* returns k/JitterSteps; the result is in units of 1/DelayUnit ms.
getExponentialBackoffDelay(retryCount, initialDelayMs, k) ==
    LET baseDelay == initialDelayMs * Pow2(retryCount) * DelayUnit
        jitter == k * initialDelayMs * Pow2(retryCount)
    IN Min(baseDelay + jitter, maxDelayMs * DelayUnit)

\* The values of retryDelayMs the function is called with.
InitialDelays == {1, 1000, 25000, 60000, 90000}

\* ------------------------------------------------------------------ state
VARIABLES
    logBuffer,        \* _logBuffer: sequence of entries awaiting delivery
    isFlushing,       \* _isFlushing
    isShuttingDown,   \* _isShuttingDown
    flushTimer,       \* _flushTimer # null
    initPending,      \* init() is suspended in `await this.initRemoteConfig()`
    flushes,          \* every flush() invocation that proceeded, in order
    admitted,         \* number of entries pushed so far (entry identity)
    shutdownAwaits,   \* flushes that a pending shutdown() call awaits
    shutdownResolved, \* some shutdown() call has resolved
    last,             \* the handler that ran last, with its input
    sanitizer,        \* _dataSanitizer: its config, auditTrail and retentionCache
    constructed,      \* what `new Monita(config)` did: "none" before the call
    defaults,         \* DEFAULT_SANITIZATION_CONFIG: the arrays it refers to
    context,          \* _context: the global context, a map from keys to values
    now,              \* Date.now(), in days
    contextStack,     \* ContextManager.contextStack
    events            \* RateLimiter.events: the times kept for each key

vars == <<logBuffer, isFlushing, isShuttingDown, flushTimer, initPending,
          flushes, admitted, shutdownAwaits, shutdownResolved, last,
          sanitizer, constructed, defaults, context, now,
                   contextStack, events>>

\* ------------------------------------------------------------- responses
\* What one `await this._axiosInstance.post(...)` can produce:
\*   resolved     the promise resolves with a response
\*   errResponse  it rejects with error.response set
\*   errRequest   it rejects with error.request set and no response
\*   errSetup     it rejects with neither
Responses ==
    { [kind |-> "resolved", status |-> 200],
      [kind |-> "resolved", status |-> 302],
      [kind |-> "errResponse", status |-> 403],
      [kind |-> "errResponse", status |-> 500],
      [kind |-> "errRequest", status |-> 0],
      [kind |-> "errSetup", status |-> 0] }

IsSuccess(r) == r.kind = "resolved" /\ r.status >= 200 /\ r.status < 300

IsClientError(r) == r.kind = "errResponse" /\ r.status >= 400 /\ r.status < 500

IsSetupError(r) == r.kind = "errSetup"

\* ------------------------------------------------------------ send loops
\* One _sendSingleLog call.  attempt is the loop variable; requests, sleeps
\* and fails count the posts issued, the delay() calls made and the
\* retryable outcomes seen.
NewLoop ==
    [phase |-> "inflight", attempt |-> 0, requests |-> 1, sleeps |-> 0,
     fails |-> 0, error |-> "none"]

Pending(l) == l.phase \in {"inflight", "sleeping"}

\* if (attempt < this._config.maxRetries) { ... await delay(retryDelay) }
SleepsAfterEveryAttempt(attempt) == attempt <= maxRetries

SleepsAfter(attempt) == attempt < maxRetries

\* A retry that issues the next post without the backoff delay.
RetryNoBackoff(l) ==
    IF SleepsAfter(l.attempt)
    THEN [l EXCEPT !.attempt = @ + 1, !.requests = @ + 1, !.fails = @ + 1]
    ELSE [l EXCEPT !.phase = "failed", !.attempt = @ + 1, !.fails = @ + 1,
                   !.error = "exhausted"]

\* The loop after the retryable outcome of attempt l.attempt.
Retry(l) ==
    IF SleepsAfter(l.attempt)
    THEN [l EXCEPT !.phase = "sleeping", !.sleeps = @ + 1, !.fails = @ + 1]
    ELSE [l EXCEPT !.phase = "failed", !.attempt = @ + 1, !.fails = @ + 1,
                   !.error = "exhausted"]

\* A classification that tests error.request before error.response: every
\* error that carries a request is taken for "no response" and retried.
OnResponseRequestFirst(l, r) ==
    IF IsSuccess(r) THEN [l EXCEPT !.phase = "delivered"]
    ELSE IF r.kind \in {"errResponse", "errRequest"} THEN Retry(l)
    ELSE IF IsSetupError(r) THEN [l EXCEPT !.phase = "failed", !.error = "setup"]
    ELSE Retry(l)

\* The loop after its pending request produced r.
OnResponse(l, r) ==
    IF IsSuccess(r) THEN [l EXCEPT !.phase = "delivered"]
    ELSE IF IsClientError(r) THEN [l EXCEPT !.phase = "failed", !.error = "client"]
    ELSE IF IsSetupError(r) THEN [l EXCEPT !.phase = "failed", !.error = "setup"]
    ELSE Retry(l)

\* The loop when its backoff delay elapses: attempt++ and the next post.
OnWake(l) ==
    [l EXCEPT !.phase = "inflight", !.attempt = @ + 1, !.requests = @ + 1]

\* ----------------------------------------------------------------- flush
\* flush() returns at once when this holds.
FlushGuardNoFlag(buf) == buf = <<>>

FlushGuardNoEmpty(buf) == isFlushing

FlushGuard(buf) == isFlushing \/ buf = <<>>

\* The live buffer once the snapshot [...this._logBuffer] is taken.
BufferKept(buf) == buf

BufferAfterSnapshot(buf) == <<>>

\* The catch block of flush(): this._logBuffer.unshift(...logsToSend).
RequeueAtBack(snapshot, buf) == buf \o snapshot

\* A catch block that leaves the buffer as it is.
RequeueDropped(snapshot, buf) == buf

Requeue(snapshot, buf) == snapshot \o buf

\* promise is the promise the flush() call returned.
NewFlush(buf) ==
    [snapshot |-> buf, status |-> "sending", promise |-> "pending",
     loops |-> [i \in 1..Len(buf) |-> NewLoop]]

\* How the promise of flush() settles when `await this._sendLogs(...)` came
\* out as outcome: the catch block absorbs the rejection.
FlushPromiseRethrows(outcome) == IF outcome = "failed" THEN "rejected" ELSE "resolved"

FlushPromise(outcome) == "resolved"

RECURSIVE SumRequests(_)
SumRequests(loops) ==
    IF loops = <<>> THEN 0
    ELSE loops[1].requests + SumRequests(Tail(loops))

RECURSIVE TotalRequests(_)
TotalRequests(fs) ==
    IF fs = <<>> THEN 0
    ELSE SumRequests(fs[1].loops) + TotalRequests(Tail(fs))

\* flush() called with the live buffer holding buf.
DoFlush(buf) ==
    IF FlushGuard(buf)
    THEN /\ logBuffer' = buf
         /\ UNCHANGED <<isFlushing, flushes>>
    ELSE /\ Len(flushes) < MaxFlushes
         /\ TotalRequests(flushes) + Len(buf) <= MaxRequests
         /\ isFlushing' = TRUE
         /\ logBuffer' = BufferAfterSnapshot(buf)
         /\ flushes' = Append(flushes, NewFlush(buf))

\* ------------------------------------------------------------- sanitizer
\* The log entry _log builds: its message holds an e-mail address and its
\* context is a copy of the global context, { ...this._context }.
NewEntry(id, level) ==
    [id |-> id, level |-> level, message |-> "a@b.co", context |-> context]

\* The entry after the e-mail rule of PII_PATTERNS was applied to its message.
Redacted(entry) == [entry EXCEPT !.message = "[EMAIL_REDACTED]"]

\* Payloads: "none" sanitizes cleanly; the others make a step inside the try
\* block of sanitizeLogEntry throw an error with that message.
Faults == {"Maximum call stack size exceeded"}

AuditLimit == 1000

\* A trail that, once full, takes no further entry.
recordAuditEntryKeepOldest(trail, e) ==
    IF Len(trail) >= AuditLimit THEN trail ELSE Append(trail, e)

\* recordAuditEntry: push, then keep the last AuditLimit entries.
recordAuditEntry(trail, e) ==
    LET t == Append(trail, e)
    IN IF Len(t) > AuditLimit THEN SubSeq(t, Len(t) - AuditLimit + 1, Len(t)) ELSE t

AuditSanitized(entry) ==
    [operation |-> "sanitize", id |-> entry.id,
     rulesApplied |-> <<"Email address redaction">>, error |-> "none"]

AuditError(entry, msg) ==
    [operation |-> "sanitize", id |-> entry.id,
     rulesApplied |-> <<"ERROR">>, error |-> msg]

\* A catch block that hands back the partly processed clone.
sanitizeLogEntryReturnsClone(s, entry, fault) ==
    IF ~s.enabled THEN [entry |-> entry, audit |-> <<>>, retain |-> <<>>,
                       threw |-> FALSE]
    ELSE IF fault = "none"
    THEN [entry |-> Redacted(entry),
          audit |-> IF s.auditEnabled THEN <<AuditSanitized(entry)>> ELSE <<>>,
          retain |-> <<>>, threw |-> FALSE]
    ELSE [entry |-> Redacted(entry),
          audit |-> IF s.auditEnabled THEN <<AuditError(entry, fault)>> ELSE <<>>,
          retain |-> <<>>, threw |-> FALSE]

\* A sanitize path that registers every entry it handles for retention.
sanitizeLogEntryRetains(s, entry, fault) ==
    [entry |-> Redacted(entry),
     audit |-> IF s.auditEnabled THEN <<AuditSanitized(entry)>> ELSE <<>>,
     retain |-> <<[id |-> entry.id, timestamp |-> 0, size |-> 1]>>,
     threw |-> FALSE]

\* A try block that records its audit entry before the step that throws,
\* and a catch block that records another.
sanitizeLogEntryAuditsTwice(s, entry, fault) ==
    IF ~s.enabled THEN [entry |-> entry, audit |-> <<>>, retain |-> <<>>,
                       threw |-> FALSE]
    ELSE IF fault = "none"
    THEN [entry |-> Redacted(entry),
          audit |-> IF s.auditEnabled THEN <<AuditSanitized(entry)>> ELSE <<>>,
          retain |-> <<>>, threw |-> FALSE]
    ELSE [entry |-> entry,
          audit |-> IF s.auditEnabled
                    THEN <<AuditSanitized(entry), AuditError(entry, fault)>>
                    ELSE <<>>,
          retain |-> <<>>, threw |-> FALSE]

\* sanitizeLogEntry(entry) on sanitizer s: the entry it returns, the audit
\* entries it records, what it puts in the retention cache and whether an
\* exception leaves the call.
sanitizeLogEntry(s, entry, fault) ==
    IF ~s.enabled THEN [entry |-> entry, audit |-> <<>>, retain |-> <<>>,
                       threw |-> FALSE]
    ELSE IF fault = "none"
    THEN [entry |-> Redacted(entry),
          audit |-> IF s.auditEnabled THEN <<AuditSanitized(entry)>> ELSE <<>>,
          retain |-> <<>>, threw |-> FALSE]
    ELSE [entry |-> entry,
          audit |-> IF s.auditEnabled THEN <<AuditError(entry, fault)>> ELSE <<>>,
          retain |-> <<>>, threw |-> FALSE]

RECURSIVE RecordAll(_, _)
RecordAll(trail, es) ==
    IF es = <<>> THEN trail
    ELSE RecordAll(recordAuditEntry(trail, es[1]), Tail(es))

\* DEFAULT_SANITIZATION_CONFIG.retentionPolicy: maxAge in days, maxSize in MB.
DefaultMaxAge == 30

DefaultMaxSize == 100

\* createDataSanitizer(config): { ...DEFAULT_SANITIZATION_CONFIG, ...config }.
\* The spread copies references: customRules is the array of the defaults
\* ("DEFAULT") until a configuration brings its own (ownRules).
NewSanitizer(auditEnabled) ==
    [enabled |-> TRUE, auditEnabled |-> auditEnabled, auditTrail |-> <<>>,
     customRules |-> "DEFAULT", ownRules |-> <<>>,
     retentionPolicy |-> [maxAge |-> DefaultMaxAge, maxSize |-> DefaultMaxSize],
     retentionCache |-> <<>>, anonymizationEnabled |-> TRUE,
     rules |-> "PII_PATTERNS"]

\* The module-level tables as they are when the module is loaded.
NewDefaults == [customRules |-> <<>>]

\* ------------------------------------------------------------- retention
\* The test of getDataForDeletion on one cached item at time t.
ExpiredAgeOnly(s, t, info) == t - info.timestamp > s.retentionPolicy.maxAge

Expired(s, t, info) ==
    \/ t - info.timestamp > s.retentionPolicy.maxAge
    \/ info.size > s.retentionPolicy.maxSize

\* Map.prototype.set: the value of a key already there is replaced in place,
\* a new key is added at the end.
MapSet(cache, info) ==
    IF \E k \in DOMAIN cache : cache[k].id = info.id
    THEN [k \in DOMAIN cache |-> IF cache[k].id = info.id THEN info ELSE cache[k]]
    ELSE Append(cache, info)

\* shouldRetainData(dataId, timestamp, size) at time t: the sanitizer
\* afterwards and the result.
shouldRetainData(s, t, dataId, timestamp, size) ==
    IF t - timestamp > s.retentionPolicy.maxAge
    THEN [sanitizer |-> s, result |-> FALSE]
    ELSE IF size > s.retentionPolicy.maxSize
    THEN [sanitizer |-> s, result |-> FALSE]
    ELSE [sanitizer |-> [s EXCEPT !.retentionCache =
                            MapSet(@, [id |-> dataId, timestamp |-> timestamp,
                                       size |-> size])],
          result |-> TRUE]

\* updateConfig(newConfig): the fields of newConfig replace those of the
\* configuration; a customRules of newConfig is a list of the caller's own.
updateConfig(s, newConfig) ==
    LET merged == [k \in DOMAIN s |->
                      IF k \in DOMAIN newConfig /\ k # "customRules"
                      THEN newConfig[k] ELSE s[k]]
    IN IF "customRules" \in DOMAIN newConfig
       THEN [merged EXCEPT !.customRules = "OWN", !.ownRules = newConfig.customRules]
       ELSE merged

\* The retention policy of SANITIZATION_PRESETS.STRICT, in days and MB.
StrictMaxAge == 7
StrictMaxSize == 50
StrictPolicy == [maxAge |-> StrictMaxAge, maxSize |-> StrictMaxSize]

getDataForDeletion(s, t) == SelectSeq(s.retentionCache, LAMBDA info : Expired(s, t, info))

AuditDelete(dataId) ==
    [operation |-> "delete", dataId |-> dataId,
     rulesApplied |-> <<"retention_policy">>, reason |-> "expired"]

\* cleanupExpiredData() at time t: the sanitizer afterwards and the count.
cleanupExpiredData(s, t) ==
    LET toDelete == getDataForDeletion(s, t)
        audits == IF s.auditEnabled
                  THEN [k \in DOMAIN toDelete |-> AuditDelete(toDelete[k].id)]
                  ELSE <<>>
    IN [sanitizer |-> [s EXCEPT
                         !.retentionCache =
                             SelectSeq(@, LAMBDA info :
                                 \A k \in DOMAIN toDelete : toDelete[k].id # info.id),
                         !.auditTrail = RecordAll(@, audits)],
        count |-> Len(toDelete)]

\* ------------------------------------------------------------------- log
\* _log returns before building an entry when this holds.
IgnoredLevelOnly(level) == ~shouldLog(level, minLogLevel)

IgnoredShutdownOnly(level) == isShuttingDown

Ignored(level) == isShuttingDown \/ ~shouldLog(level, minLogLevel)

\* this._logBuffer.push(sanitizedEntry)
PushFront(buf, e) == <<e>> \o buf

PushEntry(buf, e) == Append(buf, e)

\* The size trigger checked right after the push.
SizeTriggerAbove(buf) == Len(buf) > batchSize

SizeTrigger(buf) == Len(buf) >= batchSize

\* ---------------------------------------------------------------- actions
\* The state the constructor leaves, init() included; remote says whether the
\* instance was constructed with enableRemoteConfig, in which case init() is
\* suspended in its first await and has not armed the flush timer yet.
Constructed(remote) ==
    /\ logBuffer = <<>>
    /\ isFlushing = FALSE
    /\ isShuttingDown = FALSE
    /\ initPending = remote
    /\ flushTimer = ~remote
    /\ flushes = <<>>
    /\ admitted = 0
    /\ shutdownAwaits = {}
    /\ shutdownResolved = FALSE
    /\ last = [op |-> "init"]
    /\ sanitizer = NewSanitizer(TRUE)
    /\ constructed = "ok"
    /\ defaults = NewDefaults
    /\ context = [k \in {} |-> ""]
    /\ now = 0
    /\ contextStack = <<>>
    /\ events = [key \in {} |-> <<>>]

\* Constructed with the defaults: enableRemoteConfig is false.
Init == Constructed(FALSE)

\* Constructed with or without enableRemoteConfig.
InitRemote == \E remote \in BOOLEAN : Constructed(remote)

\* init() resumes after the remote configuration was fetched and arms the timer.
InitResume ==
    /\ constructed = "ok"
    /\ initPending
    /\ initPending' = FALSE
    /\ flushTimer' = TRUE
    /\ last' = [op |-> "initResume"]
    /\ UNCHANGED <<logBuffer, isFlushing, isShuttingDown, flushes, admitted,
                   shutdownAwaits, shutdownResolved, sanitizer, constructed,
                   defaults, context, now,
                   contextStack, events>>

\* logger[level](message) with a payload of kind fault.
Log(level, fault) ==
    /\ constructed = "ok"
    /\ IF Ignored(level)
       THEN /\ last' = [op |-> "log", level |-> level, fault |-> fault, escaped |-> FALSE]
            /\ UNCHANGED <<logBuffer, isFlushing, flushes, admitted, sanitizer>>
       ELSE LET res == sanitizeLogEntry(sanitizer, NewEntry(admitted + 1, level), fault)
            IN /\ admitted < MaxLogs
               /\ last' = [op |-> "log", level |-> level, fault |-> fault,
                           escaped |-> res.threw]
               /\ sanitizer' = [sanitizer EXCEPT
                                   !.auditTrail = RecordAll(@, res.audit),
                                   !.retentionCache = @ \o res.retain]
               /\ IF res.threw
                  THEN UNCHANGED <<logBuffer, isFlushing, flushes, admitted>>
                  ELSE /\ admitted' = admitted + 1
                       /\ LET buf == PushEntry(logBuffer, res.entry)
                          IN IF SizeTrigger(buf)
                             THEN DoFlush(buf)
                             ELSE /\ logBuffer' = buf
                                  /\ UNCHANGED <<isFlushing, flushes>>
    /\ UNCHANGED <<isShuttingDown, flushTimer, initPending, shutdownAwaits,
                   shutdownResolved, constructed, defaults, context, now,
                   contextStack, events>>

\* A timer whose callback does nothing.
TimerTickIdle ==
    /\ constructed = "ok"
    /\ flushTimer
    /\ last' = [op |-> "timer"]
    /\ UNCHANGED <<logBuffer, isFlushing, flushes, isShuttingDown, flushTimer,
                   initPending, admitted, shutdownAwaits, shutdownResolved,
                   sanitizer, constructed, defaults, context, now, contextStack,
                   events>>

TimerTick ==
    /\ constructed = "ok"
    /\ flushTimer
    /\ last' = [op |-> "timer"]
    /\ DoFlush(logBuffer)
    /\ UNCHANGED <<isShuttingDown, flushTimer, initPending, admitted,
                   shutdownAwaits, shutdownResolved, sanitizer, constructed,
                   defaults, context, now,
                   contextStack, events>>

Flush ==
    /\ constructed = "ok"
    /\ last' = [op |-> "flush"]
    /\ DoFlush(logBuffer)
    /\ UNCHANGED <<isShuttingDown, flushTimer, initPending, admitted,
                   shutdownAwaits, shutdownResolved, sanitizer, constructed,
                   defaults, context, now,
                   contextStack, events>>

Shutdown ==
    /\ constructed = "ok"
    /\ last' = [op |-> "shutdown", cleaned |-> cleanupExpiredData(sanitizer, now).count]
    /\ isShuttingDown' = TRUE
    /\ flushTimer' = FALSE
    /\ sanitizer' = cleanupExpiredData(sanitizer, now).sanitizer
    /\ DoFlush(logBuffer)
    /\ IF FlushGuard(logBuffer)
       THEN /\ shutdownResolved' = TRUE
            /\ UNCHANGED shutdownAwaits
       ELSE /\ shutdownAwaits' = shutdownAwaits \cup {Len(flushes) + 1}
            /\ UNCHANGED shutdownResolved
    /\ UNCHANGED <<initPending, admitted, constructed, defaults, context, now,
                   contextStack, events>>

\* Promise.all over the loops of a flush: rejected as soon as one loop has
\* failed, fulfilled when every loop has delivered, pending otherwise.
AllOutcome(loops) ==
    IF \E i \in DOMAIN loops : loops[i].phase = "failed" THEN "failed"
    ELSE IF \A i \in DOMAIN loops : loops[i].phase = "delivered" THEN "ok"
    ELSE "sending"

\* The response to the pending request of loop i of flush f arrives.
Respond(f, i, r) ==
    /\ flushes[f].loops[i].phase = "inflight"
    /\ LET loops == [flushes[f].loops EXCEPT ![i] = OnResponse(@, r)]
           settled == flushes[f].status = "sending" /\ AllOutcome(loops) # "sending"
           promise == IF settled THEN FlushPromise(AllOutcome(loops)) ELSE flushes[f].promise
       IN /\ flushes' = [flushes EXCEPT ![f].loops = loops,
                                        ![f].status = IF settled THEN AllOutcome(loops) ELSE @,
                                        ![f].promise = promise]
          /\ last' = [op |-> "respond", r |-> r,
                      escaped |-> settled /\ promise = "rejected"]
          /\ IF settled
             THEN /\ logBuffer' = IF AllOutcome(loops) = "failed"
                                  THEN Requeue(flushes[f].snapshot, logBuffer)
                                  ELSE logBuffer
                  /\ isFlushing' = FALSE
                  /\ shutdownAwaits' = shutdownAwaits \ {f}
                  /\ shutdownResolved' =
                        (shutdownResolved \/ (f \in shutdownAwaits /\ promise = "resolved"))
             ELSE UNCHANGED <<logBuffer, isFlushing, shutdownAwaits, shutdownResolved>>
    /\ UNCHANGED <<isShuttingDown, flushTimer, initPending, admitted, sanitizer,
                   constructed, defaults, context, now,
                   contextStack, events>>

\* The backoff delay of loop i of flush f elapses.
Wake(f, i) ==
    /\ flushes[f].loops[i].phase = "sleeping"
    /\ TotalRequests(flushes) < MaxRequests
    /\ last' = [op |-> "wake"]
    /\ flushes' = [flushes EXCEPT ![f].loops[i] = OnWake(@)]
    /\ UNCHANGED <<logBuffer, isFlushing, isShuttingDown, flushTimer, initPending,
                   admitted, shutdownAwaits, shutdownResolved, sanitizer, constructed,
                   defaults, context, now,
                   contextStack, events>>

Next ==
    \/ \E level \in InputLevels : Log(level, "none")
    \/ TimerTick
    \/ Flush
    \/ Shutdown
    \/ \E f \in DOMAIN flushes : \E i \in DOMAIN flushes[f].loops :
          \E r \in Responses : Respond(f, i, r)
    \/ \E f \in DOMAIN flushes : \E i \in DOMAIN flushes[f].loops : Wake(f, i)

Spec == Init /\ [][Next]_vars

\* The logger while it runs, shutdown() never called: the timer keeps firing,
\* every request is answered in the end and every backoff delay elapses.
RespondSome == \E f \in DOMAIN flushes : \E i \in DOMAIN flushes[f].loops :
                  \E r \in Responses : Respond(f, i, r)

WakeSome == \E f \in DOMAIN flushes : \E i \in DOMAIN flushes[f].loops : Wake(f, i)

NextRunning ==
    \/ \E level \in InputLevels : Log(level, "none")
    \/ TimerTick
    \/ Flush
    \/ RespondSome
    \/ WakeSome

SpecRunning ==
    /\ Init
    /\ [][NextRunning]_vars
    /\ WF_vars(TimerTick)
    /\ WF_vars(RespondSome)
    /\ WF_vars(WakeSome)

NextRemote ==
    \/ InitResume
    \/ Next

SpecRemote == InitRemote /\ [][NextRemote]_vars

\* ---------------------------------------------------------------- fail open
\* Constructed with the defaults but for sanitization.config.auditEnabled,
\* and logged to with payloads that make a sanitizer step throw.
InitFailOpen ==
    /\ logBuffer = <<>>
    /\ isFlushing = FALSE
    /\ isShuttingDown = FALSE
    /\ initPending = FALSE
    /\ flushTimer = TRUE
    /\ flushes = <<>>
    /\ admitted = 0
    /\ shutdownAwaits = {}
    /\ shutdownResolved = FALSE
    /\ last = [op |-> "init"]
    /\ \E auditEnabled \in BOOLEAN : sanitizer = NewSanitizer(auditEnabled)
    /\ constructed = "ok"
    /\ defaults = NewDefaults
    /\ context = [k \in {} |-> ""]
    /\ now = 0
    /\ contextStack = <<>>
    /\ events = [key \in {} |-> <<>>]

NextFailOpen ==
    \/ \E level \in InputLevels : \E fault \in Faults : Log(level, fault)
    \/ TimerTick
    \/ Flush
    \/ Shutdown
    \/ \E f \in DOMAIN flushes : \E i \in DOMAIN flushes[f].loops :
          \E r \in Responses : Respond(f, i, r)
    \/ \E f \in DOMAIN flushes : \E i \in DOMAIN flushes[f].loops : Wake(f, i)

SpecFailOpen == InitFailOpen /\ [][NextFailOpen]_vars

\* ------------------------------------------------------------ construction
\* The values config.apiKey and config.projectId are given: a missing key,
\* the empty string, a non-empty string.
ConfigValues == {"undefined", "", "set"}

Falsy(v) == v \in {"undefined", ""}

\* A validation that tests the API key only.
ConfigValidApiKeyOnly(config) == ~Falsy(config.apiKey)

\* The constructor throws unless this holds.
ConfigValid(config) == ~Falsy(config.apiKey) /\ ~Falsy(config.projectId)

\* The value of a field that was never assigned.
Undefined == [undefined |-> TRUE]

\* Before `new Monita(config)`: the fields hold their initializers.
NotConstructed ==
    /\ logBuffer = <<>>
    /\ isFlushing = FALSE
    /\ isShuttingDown = FALSE
    /\ initPending = FALSE
    /\ flushTimer = FALSE
    /\ flushes = <<>>
    /\ admitted = 0
    /\ shutdownAwaits = {}
    /\ shutdownResolved = FALSE
    /\ last = [op |-> "none"]
    /\ sanitizer = Undefined
    /\ constructed = "none"
    /\ defaults = NewDefaults
    /\ context = [k \in {} |-> ""]
    /\ now = 0
    /\ contextStack = <<>>
    /\ events = [key \in {} |-> <<>>]

\* new Monita(config), the other keys of config left to their defaults: the
\* validation comes before the HTTP client, the sanitizer and init().
Construct(config) ==
    /\ constructed = "none"
    /\ last' = [op |-> "construct", config |-> config]
    /\ IF ~ConfigValid(config)
       THEN /\ constructed' = "threw"
            /\ UNCHANGED <<sanitizer, flushTimer>>
       ELSE /\ constructed' = "ok"
            /\ sanitizer' = NewSanitizer(TRUE)
            /\ flushTimer' = TRUE
    /\ UNCHANGED <<logBuffer, isFlushing, isShuttingDown, initPending, flushes,
                   admitted, shutdownAwaits, shutdownResolved, defaults, context,
                   now,
                   contextStack, events>>

NextConstruct ==
    \/ \E apiKey \in ConfigValues : \E projectId \in ConfigValues :
          Construct([apiKey |-> apiKey, projectId |-> projectId])
    \/ Next

SpecConstruct == NotConstructed /\ [][NextConstruct]_vars

\* ------------------------------------------------------------------ rules
\* The sample strings, and the replacement strings of PII_PATTERNS.
Email == <<"a", "@", "b", ".", "c", "o", "m">>

Ssn == <<"1", "2", "3", "-", "4", "5", "-", "6", "7", "8", "9">>

CircularReference == <<"[", "C", "i", "r", "c", "u", "l", "a", "r", " ", "R", "e", "f", "e", "r", "e", "n", "c", "e", "]">>

EmailRedacted ==
    <<"[", "E", "M", "A", "I", "L", "_", "R",
      "E", "D", "A", "C", "T", "E", "D", "]">>

SsnRedacted ==
    <<"[", "S", "S", "N", "_", "R", "E",
      "D", "A", "C", "T", "E", "D", "]">>

CardRedacted ==
    <<"[", "C", "A", "R", "D", "_", "R",
      "E", "D", "A", "C", "T", "E", "D", "]">>

PhoneRedacted ==
    <<"[", "P", "H", "O", "N", "E", "_", "R",
      "E", "D", "A", "C", "T", "E", "D", "]">>

IpRedacted ==
    <<"[", "I", "P", "_", "R", "E",
      "D", "A", "C", "T", "E", "D", "]">>

ApiKeyRedacted ==
    <<"[", "A", "P", "I", "_", "K", "E", "Y", "_",
      "R", "E", "D", "A", "C", "T", "E", "D", "]">>

JwtRedacted ==
    <<"[", "J", "W", "T", "_", "R", "E",
      "D", "A", "C", "T", "E", "D", "]">>

AccountRedacted ==
    <<"[", "A", "C", "C", "O", "U", "N", "T", "_",
      "R", "E", "D", "A", "C", "T", "E", "D", "]">>

DlRedacted ==
    <<"[", "D", "L", "_", "R", "E",
      "D", "A", "C", "T", "E", "D", "]">>

PassportRedacted ==
    <<"[", "P", "A", "S", "S", "P", "O", "R", "T",
      "_", "R", "E", "D", "A", "C", "T", "E", "D", "]">>

\* A rule is its description, the sample strings its pattern matches (each of
\* them from end to end) and its replacement.  Of the sample strings only
\* "a@b.com" matches the e-mail pattern and only "123-45-6789" the SSN
\* pattern; no pattern matches a replacement string or "abcdefgh".
PII_PATTERNS ==
    <<[description |-> "Email address redaction", matches |-> {Email},
       replacement |-> EmailRedacted],
      [description |-> "Social Security Number redaction", matches |-> {Ssn},
       replacement |-> SsnRedacted],
      [description |-> "Credit card number redaction", matches |-> {},
       replacement |-> CardRedacted],
      [description |-> "Phone number redaction", matches |-> {},
       replacement |-> PhoneRedacted],
      [description |-> "IP address redaction", matches |-> {},
       replacement |-> IpRedacted],
      [description |-> "API key and token redaction", matches |-> {},
       replacement |-> ApiKeyRedacted],
      [description |-> "JWT token redaction", matches |-> {},
       replacement |-> JwtRedacted],
      [description |-> "Bank account number redaction", matches |-> {},
       replacement |-> AccountRedacted],
      [description |-> "Driver's license redaction", matches |-> {},
       replacement |-> DlRedacted],
      [description |-> "Passport number redaction", matches |-> {},
       replacement |-> PassportRedacted]>>

\* this.config.customRules: the array of the defaults or the instance's own.
CustomRules(s) == IF s.customRules = "DEFAULT" THEN defaults.customRules ELSE s.ownRules

\* this.config.rules: the module's array PII_PATTERNS.
Rules(s) == CASE s.rules = "PII_PATTERNS" -> PII_PATTERNS

\* Custom rules first, built-in rules after them.
AllRulesCustomFirst(s) == CustomRules(s) \o Rules(s)

\* [...this.config.rules, ...this.config.customRules]
AllRules(s) == Rules(s) \o CustomRules(s)

\* The loop of sanitizeString over rules: the text and rulesApplied after it.
RECURSIVE ApplyRules(_, _, _)
ApplyRules(text, rulesApplied, rules) ==
    IF rules = <<>> THEN [text |-> text, rulesApplied |-> rulesApplied]
    ELSE LET rule == Head(rules)
             out == IF text \in rule.matches THEN rule.replacement ELSE text
         IN ApplyRules(out,
                       IF Len(out) # Len(text)
                       THEN Append(rulesApplied, rule.description)
                       ELSE rulesApplied,
                       Tail(rules))

sanitizeString(s, input, rulesApplied) == ApplyRules(input, rulesApplied, AllRules(s))

\* addCustomRule(rule) on sanitizer s while the defaults are d: push onto
\* this.config.customRules, which is the array of the defaults unless the
\* configuration was given one of its own.
addCustomRule(s, d, rule) ==
    IF s.customRules = "DEFAULT"
    THEN [sanitizer |-> s, defaults |-> [d EXCEPT !.customRules = Append(@, rule)]]
    ELSE [sanitizer |-> [s EXCEPT !.ownRules = Append(@, rule)], defaults |-> d]

\* findIndex by description, -1 as 0.
FindIndex(list, description) ==
    IF \E k \in DOMAIN list : list[k].description = description
    THEN CHOOSE k \in DOMAIN list :
            /\ list[k].description = description
            /\ \A j \in 1..(k - 1) : list[j].description # description
    ELSE 0

\* splice(index, 1)
Splice(list, index) == SubSeq(list, 1, index - 1) \o SubSeq(list, index + 1, Len(list))

\* removeCustomRule(description): the first custom rule of that description
\* is taken out of this.config.customRules.
removeCustomRule(s, d, description) ==
    LET list == IF s.customRules = "DEFAULT" THEN d.customRules ELSE s.ownRules
        index == FindIndex(list, description)
    IN IF index = 0 THEN [sanitizer |-> s, defaults |-> d, result |-> FALSE]
       ELSE IF s.customRules = "DEFAULT"
       THEN [sanitizer |-> s,
             defaults |-> [d EXCEPT !.customRules = Splice(list, index)],
             result |-> TRUE]
       ELSE [sanitizer |-> [s EXCEPT !.ownRules = Splice(list, index)],
             defaults |-> d, result |-> TRUE]

\* ---------------------------------------------------------------- strings
\* A string is the sequence of its characters.
Repeat(c, n) == [k \in 1..n |-> c]

Max(a, b) == IF a >= b THEN a ELSE b

Anonymized == <<"[", "A", "N", "O", "N", "Y", "M", "I", "Z", "E", "D", "]">>

\* A mask of six asterisks whatever the length.
anonymizeValueFixedMask(value) ==
    IF Len(value) <= 4 THEN Anonymized
    ELSE <<value[1]>> \o Repeat("*", 6) \o <<value[Len(value)]>>

anonymizeValue(value) ==
    IF Len(value) <= 4 THEN Anonymized
    ELSE <<value[1]>> \o Repeat("*", Max(2, Len(value) - 2)) \o <<value[Len(value)]>>

\* The strings the string functions are called with.
RECURSIVE StringsOfLength(_)
StringsOfLength(n) ==
    IF n = 0 THEN {<<>>}
    ELSE {Append(v, c) : v \in StringsOfLength(n - 1), c \in {"a", "h"}}

Abcdefgh == <<"a", "b", "c", "d", "e", "f", "g", "h">>

InputStrings == UNION {StringsOfLength(n) : n \in 0..MaxStringLen} \cup {Abcdefgh}

\* ---------------------------------------------------------------- payloads
\* A payload is a heap: a sequence of values, each a string, an object or an
\* array; the kids of an object or array name their key and refer to a value
\* by its position in the heap.  Sharing and cycles are references to the
\* same position.
StringNode(text) == [kind |-> "string", text |-> text, kids |-> <<>>]

\* Keys are strings of characters: of an array its indices, of an object
\* `ssn` and `note`.
KeyAt(kind, i) ==
    IF kind = "array" THEN (IF i = 1 THEN <<"0">> ELSE <<"1">>)
    ELSE (IF i = 1 THEN <<"s", "s", "n">> ELSE <<"n", "o", "t", "e">>)

Node(kind, refs) ==
    [kind |-> kind, text |-> <<>>,
     kids |-> [i \in DOMAIN refs |-> [key |-> KeyAt(kind, i), ref |-> refs[i]]]]

\* A clone that is the value itself.
deepCloneShares(heap, root) == [heap |-> heap, root |-> root]

\* deepClone: every value is copied to a fresh position, references between
\* copies mirror the references between the originals (the WeakMap `seen`),
\* and the original values stay where they are.
deepClone(heap, root) ==
    [heap |-> heap \o
              [n \in 1..Len(heap) |->
                  [heap[n] EXCEPT !.kids =
                      [i \in DOMAIN @ |-> [@[i] EXCEPT !.ref = @ + Len(heap)]]]],
     root |-> root + Len(heap)]

\* The recursion of sanitizeObject on value n.  acc carries the WeakSet
\* `seen` and rulesApplied through the traversal; depth is the number of
\* nested calls.  A traversal that ends visits no value twice on one path but
\* for a last call that finds its object in `seen`, so a depth beyond
\* Len(heap) + 1 is a recursion that never returns: the call stack overflows.
RECURSIVE sanitizeObject(_, _, _, _, _)
RECURSIVE sanitizeKids(_, _, _, _, _)
sanitizeObject(s, heap, n, acc, depth) ==
    IF depth > Len(heap) + 1
    THEN [out |-> StringNode(<<>>), seen |-> acc.seen,
          rulesApplied |-> acc.rulesApplied, overflow |-> TRUE]
    ELSE IF heap[n].kind = "string"
    THEN LET r == sanitizeString(s, heap[n].text, acc.rulesApplied)
         IN [out |-> StringNode(r.text), seen |-> acc.seen,
             rulesApplied |-> r.rulesApplied, overflow |-> FALSE]
    ELSE IF heap[n].kind = "array"
    THEN LET r == sanitizeKids(s, heap, heap[n].kids, acc, depth + 1)
         IN [out |-> [kind |-> "array", text |-> <<>>, kids |-> r.outs],
             seen |-> r.seen, rulesApplied |-> r.rulesApplied,
             overflow |-> r.overflow]
    ELSE IF n \in acc.seen
    THEN [out |-> StringNode(CircularReference), seen |-> acc.seen,
          rulesApplied |-> acc.rulesApplied, overflow |-> FALSE]
    ELSE LET r == sanitizeKids(s, heap, heap[n].kids,
                               [acc EXCEPT !.seen = @ \cup {n}], depth + 1)
         IN [out |-> [kind |-> "object", text |-> <<>>, kids |-> r.outs],
             seen |-> r.seen, rulesApplied |-> r.rulesApplied,
             overflow |-> r.overflow]

\* The kids of one object or array, in order; the results are values, not
\* references: every call builds a new object or array.
sanitizeKids(s, heap, kids, acc, depth) ==
    IF kids = <<>>
    THEN [outs |-> <<>>, seen |-> acc.seen, rulesApplied |-> acc.rulesApplied,
          overflow |-> FALSE]
    ELSE LET r == sanitizeObject(s, heap, Head(kids).ref, acc, depth)
         IN IF r.overflow
            THEN [outs |-> <<>>, seen |-> r.seen, rulesApplied |-> r.rulesApplied,
                  overflow |-> TRUE]
            ELSE LET rest == sanitizeKids(s, heap, Tail(kids),
                                          [seen |-> r.seen,
                                           rulesApplied |-> r.rulesApplied], depth)
                 IN [outs |-> <<[key |-> Head(kids).key, value |-> r.out]>> \o rest.outs,
                     seen |-> rest.seen, rulesApplied |-> rest.rulesApplied,
                     overflow |-> rest.overflow]

\* String.prototype.includes.
Includes(text, part) ==
    \E i \in 0..(Len(text) - Len(part)) : SubSeq(text, i + 1, i + Len(part)) = part

\* String.prototype.toLowerCase, on the letters the keys are written with.
toLowerCase(text) ==
    [i \in DOMAIN text |->
        CASE text[i] = "S" -> "s" [] text[i] = "N" -> "n" [] OTHER -> text[i]]

SensitiveFields ==
    << <<"p", "a", "s", "s", "w", "o", "r", "d">>, <<"s", "e", "c", "r", "e", "t">>,
       <<"t", "o", "k", "e", "n">>, <<"k", "e", "y">>, <<"s", "s", "n">>,
       <<"e", "m", "a", "i", "l">> >>

\* The test of anonymizeField on one key: some sensitive field is part of
\* the key or of the path to it.
Sensitive(key, currentPath) ==
    \E f \in DOMAIN SensitiveFields :
        \/ Includes(toLowerCase(key), toLowerCase(SensitiveFields[f]))
        \/ Includes(toLowerCase(currentPath), toLowerCase(SensitiveFields[f]))

\* anonymizeField on a sanitized object or array (a tree: sanitizeObject
\* builds a new object at every call, so `visited` never hits).
RECURSIVE anonymizeField(_, _, _)
RECURSIVE anonymizeKids(_, _, _)
anonymizeField(tree, path, rulesApplied) ==
    IF tree.kind = "string"
    THEN [out |-> tree, rulesApplied |-> rulesApplied]
    ELSE LET r == anonymizeKids(tree.kids, path, rulesApplied)
         IN [out |-> [tree EXCEPT !.kids = r.outs], rulesApplied |-> r.rulesApplied]

anonymizeKids(kids, path, rulesApplied) ==
    IF kids = <<>> THEN [outs |-> <<>>, rulesApplied |-> rulesApplied]
    ELSE LET key == Head(kids).key
             value == Head(kids).value
             currentPath == IF path = <<>> THEN key ELSE path \o <<".">> \o key
             r == IF value.kind = "string"
                  THEN IF Sensitive(key, currentPath)
                       THEN [out |-> StringNode(anonymizeValue(value.text)),
                             rulesApplied |-> Append(rulesApplied, <<"anonymize", key>>)]
                       ELSE [out |-> value, rulesApplied |-> rulesApplied]
                  ELSE anonymizeField(value, currentPath, rulesApplied)
             rest == anonymizeKids(Tail(kids), path, r.rulesApplied)
         IN [outs |-> <<[key |-> key, value |-> r.out]>> \o rest.outs,
             rulesApplied |-> rest.rulesApplied]

\* The log entry as a value of the heap: its message, a string it holds
\* itself, and its field data, which refers to the payload.
EntryNode(message, data) ==
    [kind |-> "entry", text |-> message,
     kids |-> <<[key |-> <<"d", "a", "t", "a">>, ref |-> data]>>]

\* The body of sanitizeLogEntry on an entry with a message and data: clone,
\* redact the message and write it to the clone, redact data and write the
\* new object to the clone (reference 0: an object made in the call),
\* anonymize; a RangeError of the traversal is caught and the entry handed in
\* is returned.  caller is what the caller's values are after the call.
sanitizePayload(s, message, heap) ==
    LET given == Append(heap, EntryNode(message, 1))
        clone == deepClone(given, Len(given))
        entry == clone.heap[clone.root]
        m == IF entry.text = <<>> THEN [text |-> entry.text, rulesApplied |-> <<>>]
             ELSE sanitizeString(s, entry.text, <<>>)
        afterMessage == [clone.heap EXCEPT ![clone.root].text = m.text]
        d == sanitizeObject(s, afterMessage, entry.kids[1].ref,
                            [seen |-> {}, rulesApplied |-> m.rulesApplied], 1)
        afterData == [afterMessage EXCEPT ![clone.root].kids[1].ref = 0]
        a == IF s.anonymizationEnabled
             THEN anonymizeField(d.out, <<>>, d.rulesApplied)
             ELSE [out |-> d.out, rulesApplied |-> d.rulesApplied]
    IN IF d.overflow
       THEN [threw |-> TRUE, message |-> afterMessage[Len(given)].text,
             data |-> StringNode(<<>>), rulesApplied |-> <<"ERROR">>,
             caller |-> SubSeq(afterMessage, 1, Len(given))]
       ELSE [threw |-> FALSE, message |-> m.text, data |-> a.out,
             rulesApplied |-> a.rulesApplied,
             caller |-> SubSeq(afterData, 1, Len(given))]

\* The payload graphs sanitizeObject is called with: value 1, the root, is
\* an object (data, context and metadata are objects).
RefSeqs == {<<a>> : a \in 1..MaxNodes} \cup {<<a, b>> : a \in 1..MaxNodes, b \in 1..MaxNodes}

NodeShapes ==
    {StringNode(Email), StringNode(Ssn)} \cup
    {Node(kind, refs) : kind \in {"object", "array"}, refs \in RefSeqs}

Heaps == {heap \in [1..MaxNodes -> NodeShapes] : heap[1].kind = "object"}

\* ------------------------------------------------------- sanitizer calls
\* The methods of the sanitizer that keep no state, called on their own on a
\* sanitizer built with the defaults: the initial state holds the arguments
\* of one call in last, the call replaces them by the call and its result.
loggerVars ==
    <<logBuffer, isFlushing, isShuttingDown, flushTimer, initPending, flushes,
      admitted, shutdownAwaits, shutdownResolved, constructed, context>>

SanitizeInputs ==
    {[op |-> "input", fn |-> "anonymizeValue", value |-> value] :
        value \in InputStrings}
    \cup {[op |-> "input", fn |-> "sanitizeObject", heap |-> heap] : heap \in Heaps}
    \cup {[op |-> "input", fn |-> "sanitizeLogEntry", message |-> message, heap |-> heap] :
            message \in {Email, Ssn}, heap \in Heaps}

InitSanitize ==
    /\ logBuffer = <<>>
    /\ isFlushing = FALSE
    /\ isShuttingDown = FALSE
    /\ initPending = FALSE
    /\ flushTimer = TRUE
    /\ flushes = <<>>
    /\ admitted = 0
    /\ shutdownAwaits = {}
    /\ shutdownResolved = FALSE
    /\ last \in SanitizeInputs
    /\ sanitizer = NewSanitizer(TRUE)
    /\ constructed = "ok"
    /\ defaults = NewDefaults
    /\ context = [k \in {} |-> ""]
    /\ now = 0
    /\ contextStack = <<>>
    /\ events = [key \in {} |-> <<>>]

CallAnonymizeValue ==
    /\ last.op = "input" /\ last.fn = "anonymizeValue"
    /\ last' = [op |-> "anonymizeValue", value |-> last.value,
                result |-> anonymizeValue(last.value)]
    /\ UNCHANGED <<loggerVars, sanitizer, defaults, now,
                   contextStack, events>>

\* sanitizeObject on the deep clone of a payload.
CallSanitizeObject ==
    /\ last.op = "input" /\ last.fn = "sanitizeObject"
    /\ LET clone == deepClone(last.heap, 1)
           r == sanitizeObject(sanitizer, clone.heap, clone.root,
                               [seen |-> {}, rulesApplied |-> <<>>], 1)
       IN last' = [op |-> "sanitizeObject", heap |-> last.heap, out |-> r.out,
                   overflow |-> r.overflow]
    /\ UNCHANGED <<loggerVars, sanitizer, defaults, now,
                   contextStack, events>>

\* sanitizeLogEntry on an entry with a message and a data payload.
CallSanitizePayload ==
    /\ last.op = "input" /\ last.fn = "sanitizeLogEntry"
    /\ last' = [op |-> "sanitizeLogEntry", message |-> last.message, heap |-> last.heap,
                result |-> sanitizePayload(sanitizer, last.message, last.heap)]
    /\ UNCHANGED <<loggerVars, sanitizer, defaults, now,
                   contextStack, events>>

NextSanitize ==
    \/ CallAnonymizeValue
    \/ CallSanitizePayload
    \/ CallSanitizeObject

SpecSanitize == InitSanitize /\ [][NextSanitize]_vars

\* ---------------------------------------------------------------- context
\* A merge in which the keys already there keep their values.
MergeEarlierWins(a, b) ==
    [k \in DOMAIN a \cup DOMAIN b |-> IF k \in DOMAIN a THEN a[k] ELSE b[k]]

\* { ...a, ...b }
Merge(a, b) ==
    [k \in DOMAIN a \cup DOMAIN b |-> IF k \in DOMAIN b THEN b[k] ELSE a[k]]

\* The contexts setContext is called with.
Contexts == {[user |-> "u1"], [user |-> "u2", session |-> "s1"]}

SetContext(ctx) ==
    /\ context' = Merge(context, ctx)
    /\ last' = [op |-> "setContext", ctx |-> ctx]
    /\ UNCHANGED <<logBuffer, isFlushing, isShuttingDown, flushTimer, initPending,
                   flushes, admitted, shutdownAwaits, shutdownResolved, sanitizer,
                   constructed, defaults, now,
                   contextStack, events>>

\* The answers that end a send loop at once: delivered, or refused for good.
FinalResponses == {r \in Responses : IsSuccess(r) \/ IsClientError(r)}

\* Logging and flushing while the global context is set.
NextContext ==
    \/ \E ctx \in Contexts : SetContext(ctx)
    \/ Log(minLogLevel, "none")
    \/ Flush
    \/ \E f \in DOMAIN flushes : \E i \in DOMAIN flushes[f].loops :
          \E r \in FinalResponses : Respond(f, i, r)

SpecContext == Init /\ [][NextContext]_vars

\* -------------------------------------------------------- context manager
\* pushContext(c): the current context is saved on the stack, then
\* logger.setContext({ ...logger.getContext(), ...c }).
pushContext(stack, ctx, c) ==
    [stack |-> Append(stack, ctx), context |-> Merge(ctx, Merge(ctx, c))]

\* popContext(): the saved context comes off the stack and, if there was
\* one, logger.setContext(saved), which merges it into the current context.
popContext(stack, ctx) ==
    IF stack = <<>> THEN [stack |-> stack, context |-> ctx, restored |-> FALSE]
    ELSE [stack |-> SubSeq(stack, 1, Len(stack) - 1),
          context |-> Merge(ctx, stack[Len(stack)]), restored |-> TRUE]

\* The contexts pushContext and withContext are called with.
PushedContexts == {[requestId |-> "r1"], [user |-> "u3", feature |-> "f1"]}

managerFrame ==
    <<logBuffer, isFlushing, isShuttingDown, flushTimer, initPending, flushes,
      admitted, shutdownAwaits, shutdownResolved, sanitizer, constructed,
      defaults, now, events>>

PushContext(c) ==
    /\ Len(contextStack) < MaxContextDepth
    /\ LET r == pushContext(contextStack, context, c)
       IN /\ contextStack' = r.stack
          /\ context' = r.context
    /\ last' = [op |-> "pushContext", c |-> c, before |-> context]
    /\ UNCHANGED managerFrame

PopContext ==
    /\ LET r == popContext(contextStack, context)
       IN /\ contextStack' = r.stack
          /\ context' = r.context
          /\ last' = [op |-> "popContext", restored |-> r.restored,
                      saved |-> IF r.restored THEN contextStack[Len(contextStack)]
                                ELSE context]
    /\ UNCHANGED managerFrame

\* withContext(c, fn) with an fn that leaves the context alone and returns
\* or throws: push, fn(), and in the finally block pop.
WithContext(c, throws) ==
    /\ Len(contextStack) < MaxContextDepth
    /\ LET pushed == pushContext(contextStack, context, c)
           popped == popContext(pushed.stack, pushed.context)
       IN /\ contextStack' = popped.stack
          /\ context' = popped.context
    /\ last' = [op |-> "withContext", c |-> c, before |-> context, threw |-> throws]
    /\ UNCHANGED managerFrame

NextManager ==
    \/ \E ctx \in Contexts : SetContext(ctx)
    \/ \E c \in PushedContexts : PushContext(c)
    \/ PopContext
    \/ \E c \in PushedContexts, throws \in BOOLEAN : WithContext(c, throws)

SpecManager == Init /\ [][NextManager]_vars

\* ------------------------------------------------------------ rate limiter
\* events.filter(time => now - time < this.timeWindow)
Recent(list, t) == SelectSeq(list, LAMBDA time : t - time < timeWindow)

\* this.events.get(eventKey) || []
EventsOf(ev, key) == IF key \in DOMAIN ev THEN ev[key] ELSE <<>>

\* A limiter that lets one event more through.
shouldAllowOneMore(ev, t, key) ==
    LET recentEvents == Recent(EventsOf(ev, key), t)
    IN IF Len(recentEvents) > maxEvents
       THEN [events |-> ev, result |-> FALSE]
       ELSE [events |-> [k \in DOMAIN ev \cup {key} |->
                            IF k = key THEN Append(recentEvents, t) ELSE ev[k]],
             result |-> TRUE]

\* shouldAllow(eventKey) at time t: the map afterwards and the result.
shouldAllow(ev, t, key) ==
    LET recentEvents == Recent(EventsOf(ev, key), t)
    IN IF Len(recentEvents) >= maxEvents
       THEN [events |-> ev, result |-> FALSE]
       ELSE [events |-> [k \in DOMAIN ev \cup {key} |->
                            IF k = key THEN Append(recentEvents, t) ELSE ev[k]],
             result |-> TRUE]

\* cleanup() at time t: old times go, and keys left without times.
cleanup(ev, t) ==
    [k \in {key \in DOMAIN ev : Recent(ev[key], t) # <<>>} |-> Recent(ev[k], t)]

EventKeys == {"noisy_event", "other_event"}

\* The times at which shouldAllow returned true so far, for each key; kept
\* along with the call that ran last.
Granted == IF "granted" \in DOMAIN last THEN last.granted ELSE [key \in EventKeys |-> <<>>]

limiterFrame ==
    <<logBuffer, isFlushing, isShuttingDown, flushTimer, initPending, flushes,
      admitted, shutdownAwaits, shutdownResolved, sanitizer, constructed,
      defaults, context, contextStack>>

CallShouldAllow(key) ==
    /\ LET r == shouldAllow(events, now, key)
       IN /\ events' = r.events
          /\ last' = [op |-> "shouldAllow", key |-> key, result |-> r.result,
                      granted |-> IF r.result
                                  THEN [Granted EXCEPT ![key] = Append(@, now)]
                                  ELSE Granted]
    /\ UNCHANGED <<limiterFrame, now>>

\* The interval timer of the constructor fires.
CleanupTick ==
    /\ events' = cleanup(events, now)
    /\ last' = [op |-> "cleanup", granted |-> Granted]
    /\ UNCHANGED <<limiterFrame, now>>

\* Date.now() grows.
TimePasses ==
    /\ now < MaxNow
    /\ now' = now + 1
    /\ last' = [op |-> "clock", granted |-> Granted]
    /\ UNCHANGED <<limiterFrame, events>>

NextLimiter ==
    \/ \E key \in EventKeys : CallShouldAllow(key)
    \/ CleanupTick
    \/ TimePasses

SpecLimiter == Init /\ [][NextLimiter]_vars

\* ----------------------------------------------------------- custom rules
\* Custom rules are added to and removed from a sanitizer built with the
\* defaults, its configuration is updated with a list of custom rules, and
\* strings are sanitized in between.
\* A custom rule that rewrites the replacement of the e-mail rule, and one
\* that rewrites the replacement of the first.
Masked == <<"X">>

Hidden == <<"Y", "Y">>

MaskRule == [description |-> "mask", matches |-> {EmailRedacted}, replacement |-> Masked]

HideRule == [description |-> "hide", matches |-> {Masked}, replacement |-> Hidden]

SampleRules == {MaskRule, HideRule}

CallAddCustomRule(rule) ==
    /\ Len(CustomRules(sanitizer)) < MaxCustomRules
    /\ LET r == addCustomRule(sanitizer, defaults, rule)
       IN /\ sanitizer' = r.sanitizer
          /\ defaults' = r.defaults
    /\ last' = [op |-> "addCustomRule", rule |-> rule]
    /\ UNCHANGED <<loggerVars, now,
                   contextStack, events>>

CallRemoveCustomRule(description) ==
    /\ LET r == removeCustomRule(sanitizer, defaults, description)
       IN /\ sanitizer' = r.sanitizer
          /\ defaults' = r.defaults
          /\ last' = [op |-> "removeCustomRule", description |-> description,
                      result |-> r.result]
    /\ UNCHANGED <<loggerVars, now,
                   contextStack, events>>

CallUpdateCustomRules(list) ==
    /\ sanitizer' = updateConfig(sanitizer, [customRules |-> list])
    /\ last' = [op |-> "updateConfig"]
    /\ UNCHANGED <<loggerVars, defaults, now,
                   contextStack, events>>

CallSanitizeString(input) ==
    /\ LET r == sanitizeString(sanitizer, input, <<>>)
       IN last' = [op |-> "sanitizeString", input |-> input, text |-> r.text,
                   rulesApplied |-> r.rulesApplied]
    /\ UNCHANGED <<loggerVars, sanitizer, defaults, now,
                   contextStack, events>>

NextRules ==
    \/ \E rule \in SampleRules : CallAddCustomRule(rule)
    \/ \E rule \in SampleRules : CallRemoveCustomRule(rule.description)
    \/ \E list \in {<<>>, <<HideRule>>} : CallUpdateCustomRules(list)
    \/ \E input \in {Email, Ssn} : CallSanitizeString(input)

SpecRules == Init /\ [][NextRules]_vars

\* -------------------------------------------------------------- retention
\* The retention methods called on a sanitizer without audit trail, while
\* the clock moves on and the policy is replaced by the strict one.
DataIds == {"a", "b"}

\* The days at which the calls are made: the limits of the two policies and
\* the days after them.
Times == {0, StrictMaxAge, StrictMaxAge + 1, DefaultMaxAge, DefaultMaxAge + 1}

Sizes == {StrictMaxSize, DefaultMaxSize, DefaultMaxSize + 1}

InitRetention ==
    /\ logBuffer = <<>>
    /\ isFlushing = FALSE
    /\ isShuttingDown = FALSE
    /\ initPending = FALSE
    /\ flushTimer = TRUE
    /\ flushes = <<>>
    /\ admitted = 0
    /\ shutdownAwaits = {}
    /\ shutdownResolved = FALSE
    /\ last = [op |-> "init"]
    /\ sanitizer = NewSanitizer(FALSE)
    /\ constructed = "ok"
    /\ defaults = NewDefaults
    /\ context = [k \in {} |-> ""]
    /\ now = 0
    /\ contextStack = <<>>
    /\ events = [key \in {} |-> <<>>]

\* Date.now() grows.
ClockAdvance ==
    /\ \E t \in Times : t > now /\ now' = t
    /\ last' = [op |-> "clock"]
    /\ UNCHANGED <<loggerVars, sanitizer, defaults, contextStack, events>>

CallShouldRetainData(dataId, timestamp, size) ==
    /\ LET r == shouldRetainData(sanitizer, now, dataId, timestamp, size)
       IN /\ sanitizer' = r.sanitizer
          /\ last' = [op |-> "shouldRetainData", dataId |-> dataId,
                      timestamp |-> timestamp, size |-> size, result |-> r.result]
    /\ UNCHANGED <<loggerVars, defaults, now,
                   contextStack, events>>

CallCleanupExpiredData ==
    /\ LET r == cleanupExpiredData(sanitizer, now)
       IN /\ sanitizer' = r.sanitizer
          /\ last' = [op |-> "cleanupExpiredData", count |-> r.count]
    /\ UNCHANGED <<loggerVars, defaults, now,
                   contextStack, events>>

CallUpdateRetentionPolicy ==
    /\ sanitizer' = updateConfig(sanitizer, [retentionPolicy |-> StrictPolicy])
    /\ last' = [op |-> "updateConfig"]
    /\ UNCHANGED <<loggerVars, defaults, now,
                   contextStack, events>>

NextRetention ==
    \/ ClockAdvance
    \/ \E dataId \in DataIds, timestamp \in {0, now}, size \in Sizes :
            CallShouldRetainData(dataId, timestamp, size)
    \/ CallCleanupExpiredData
    \/ CallUpdateRetentionPolicy

SpecRetention == InitRetention /\ [][NextRetention]_vars

\* ------------------------------------------------------------ audit trail
\* The sanitizer with its audit trail nearly full: SanitizedBefore entries
\* were sanitized, each leaving its audit entry; then entries are sanitized
\* (some of them failing), data is registered for retention and cleaned up
\* as the clock moves on.
SanitizedBefore == AuditLimit - 1

InitAudit ==
    /\ logBuffer = <<>>
    /\ isFlushing = FALSE
    /\ isShuttingDown = FALSE
    /\ initPending = FALSE
    /\ flushTimer = TRUE
    /\ flushes = <<>>
    /\ admitted = SanitizedBefore
    /\ shutdownAwaits = {}
    /\ shutdownResolved = FALSE
    /\ last = [op |-> "init"]
    /\ context = [k \in {} |-> ""]
    /\ sanitizer = [NewSanitizer(TRUE) EXCEPT
                       !.auditTrail = [i \in 1..SanitizedBefore |->
                                          AuditSanitized(NewEntry(i, "info"))]]
    /\ constructed = "ok"
    /\ defaults = NewDefaults
    /\ now = 0
    /\ contextStack = <<>>
    /\ events = [key \in {} |-> <<>>]

\* sanitizeLogEntry called on the sanitizer itself.
CallSanitizeLogEntry(fault) ==
    /\ admitted < SanitizedBefore + MaxLogs
    /\ LET res == sanitizeLogEntry(sanitizer, NewEntry(admitted + 1, "info"), fault)
       IN /\ sanitizer' = [sanitizer EXCEPT !.auditTrail = RecordAll(@, res.audit),
                                            !.retentionCache = @ \o res.retain]
          /\ last' = [op |-> "sanitizeLogEntry", fault |-> fault]
    /\ admitted' = admitted + 1
    /\ UNCHANGED <<logBuffer, isFlushing, isShuttingDown, flushTimer, initPending,
                   flushes, shutdownAwaits, shutdownResolved, constructed, context,
                   defaults, now,
                   contextStack, events>>

NextAudit ==
    \/ \E fault \in {"none"} \cup Faults : CallSanitizeLogEntry(fault)
    \/ \E dataId \in DataIds : CallShouldRetainData(dataId, 0, StrictMaxSize)
    \/ CallCleanupExpiredData
    \/ ClockAdvance

SpecAudit == InitAudit /\ [][NextAudit]_vars

\* The same calls on a sanitizer configured with any values of
\* config.enabled and config.auditEnabled.
InitSwitches ==
    /\ logBuffer = <<>>
    /\ isFlushing = FALSE
    /\ isShuttingDown = FALSE
    /\ initPending = FALSE
    /\ flushTimer = TRUE
    /\ flushes = <<>>
    /\ admitted = SanitizedBefore
    /\ shutdownAwaits = {}
    /\ shutdownResolved = FALSE
    /\ last = [op |-> "init"]
    /\ context = [k \in {} |-> ""]
    /\ \E enabled \in BOOLEAN : \E auditEnabled \in BOOLEAN :
          sanitizer = [NewSanitizer(auditEnabled) EXCEPT
                          !.enabled = enabled,
                          !.auditTrail = [i \in 1..SanitizedBefore |->
                                             AuditSanitized(NewEntry(i, "info"))]]
    /\ constructed = "ok"
    /\ defaults = NewDefaults
    /\ now = 0
    /\ contextStack = <<>>
    /\ events = [key \in {} |-> <<>>]

SpecSwitches == InitSwitches /\ [][NextAudit]_vars

\* ------------------------------------------------------------------ utils
\* The functions of utils.ts called on their own; last holds the call and
\* its result.
CallShouldLog(currentLevel, minLevel) ==
    /\ last' = [op |-> "shouldLog", currentLevel |-> currentLevel,
                minLevel |-> minLevel, result |-> shouldLog(currentLevel, minLevel)]
    /\ UNCHANGED <<logBuffer, isFlushing, isShuttingDown, flushTimer, initPending,
                   flushes, admitted, shutdownAwaits, shutdownResolved, sanitizer,
                   constructed, defaults, context, now,
                   contextStack, events>>

CallBackoff(retryCount, initialDelayMs, k) ==
    /\ last' = [op |-> "getExponentialBackoffDelay", retryCount |-> retryCount,
                initialDelayMs |-> initialDelayMs, random |-> k,
                result |-> getExponentialBackoffDelay(retryCount, initialDelayMs, k)]
    /\ UNCHANGED <<logBuffer, isFlushing, isShuttingDown, flushTimer, initPending,
                   flushes, admitted, shutdownAwaits, shutdownResolved, sanitizer,
                   constructed, defaults, context, now,
                   contextStack, events>>

\* The values extractErrorDetails is called with.  A field that is absent
\* or empty is "" (falsy); of an object, toString says whether the method can
\* be called; hasErrorEvent says whether the global ErrorEvent exists.
ErrorValues ==
    {[kind |-> "absent"]}
    \cup {[kind |-> "string", text |-> text] : text \in {"", "boom"}}
    \cup {[kind |-> "exception", name |-> name, message |-> message, stack |-> stack] :
            name \in {"", "TypeError"}, message \in {"", "boom"}, stack \in {"", "at f"}}
    \cup {[kind |-> "event", message |-> message, hasErrorEvent |-> hasErrorEvent] :
            message \in {"", "boom"}, hasErrorEvent \in BOOLEAN}
    \cup {[kind |-> "object", name |-> name, constructorName |-> constructorName,
           message |-> message, toString |-> toString] :
            name \in {"", "MyError"}, constructorName \in {"", "Object"},
            message \in {"", "boom"}, toString \in BOOLEAN}
    \cup {[kind |-> "primitive", text |-> text, falsy |-> falsy] :
            text \in {"0", "42"}, falsy \in BOOLEAN}

\* a || b
Or(a, b) == IF a # "" THEN a ELSE b

Details(name, message) == [threw |-> FALSE, name |-> name, message |-> message]

\* The generic-object branch: error.toString() is a TypeError on an object
\* that has no such method, and is not evaluated when error.message is truthy.
ObjectDetails(name, constructorName, message, toString) ==
    IF message = "" /\ ~toString
    THEN [threw |-> TRUE, name |-> "TypeError",
          message |-> "error.toString is not a function"]
    ELSE Details(Or(name, Or(constructorName, "ObjectError")),
                 Or(message, "[object Object]"))

extractErrorDetails(error) ==
    IF \/ error.kind = "absent"
       \/ error.kind = "string" /\ error.text = ""
       \/ error.kind = "primitive" /\ error.falsy
    THEN Details("UnknownError", "Unknown error occurred")
    ELSE IF error.kind = "string" THEN Details("StringError", error.text)
    ELSE IF error.kind = "exception"
    THEN Details(Or(error.name, "Error"), Or(error.message, "Unknown error"))
    ELSE IF error.kind = "event" /\ error.hasErrorEvent
    THEN Details("ErrorEvent", Or(error.message, "Unknown error event"))
    ELSE IF error.kind = "event"
    THEN ObjectDetails("", "Object", error.message, TRUE)
    ELSE IF error.kind = "object"
    THEN ObjectDetails(error.name, error.constructorName, error.message, error.toString)
    ELSE Details("UnknownError", error.text)

CallExtractErrorDetails(error) ==
    /\ last' = [op |-> "extractErrorDetails", error |-> error,
                result |-> extractErrorDetails(error)]
    /\ UNCHANGED <<logBuffer, isFlushing, isShuttingDown, flushTimer, initPending,
                   flushes, admitted, shutdownAwaits, shutdownResolved, sanitizer,
                   constructed, defaults, context, now, contextStack, events>>

NextUtils ==
    \/ \E error \in ErrorValues : CallExtractErrorDetails(error)
    \/ \E currentLevel \in LogLevels : \E minLevel \in LogLevels :
          CallShouldLog(currentLevel, minLevel)
    \/ \E retryCount \in 0..MaxRetryCount : \E initialDelayMs \in InitialDelays :
          \E k \in 0..(JitterSteps - 1) : CallBackoff(retryCount, initialDelayMs, k)

SpecUtils == Init /\ [][NextUtils]_vars

\* ------------------------------------------------------------ vocabulary
LoopIds == {<<f, i>> : f \in DOMAIN flushes, i \in 1..MaxLogs}

AllLoops == {fi \in LoopIds : fi[2] \in DOMAIN flushes[fi[1]].loops}

LoopOf(fi) == flushes[fi[1]].loops[fi[2]]

ActiveFlushes == {f \in DOMAIN flushes : flushes[f].status = "sending"}

IsPrefix(s, t) == Len(s) <= Len(t) /\ SubSeq(t, 1, Len(s)) = s

Ids(s) == {s[k].id : k \in DOMAIN s}

\* The severity order TRACE < DEBUG < INFO < WARN < ERROR < FATAL and the
\* position of a level in it.
SeverityOrder == <<"trace", "debug", "info", "warn", "error", "fatal">>

Rank(l) == CHOOSE k \in DOMAIN SeverityOrder : SeverityOrder[k] = l

\* The entries for which a request was issued: a flush that proceeds starts
\* one send loop per snapshot entry, and each posts before it first suspends.
RequestedIds == UNION {Ids(flushes[f].snapshot) : f \in DOMAIN flushes}

\* A step that admits an entry, and the entry it admits.
Admits == admitted' = admitted + 1

AdmittedEntry ==
    sanitizeLogEntry(sanitizer, NewEntry(admitted + 1, last'.level), last'.fault).entry

\* A step in which a flush() call proceeds past the guard.
FlushStarts == Len(flushes') > Len(flushes)

\* ---------------------------------------------------------------- claims

\* C1: at most one flush() invocation has taken its snapshot and not yet
\* completed, whatever the interleaving of log calls, timer ticks, explicit
\* flush() calls and shutdown().
C1_AtMostOneFlushInFlight == Cardinality(ActiveFlushes) <= 1

\* A log call reached the size trigger while a flush was in flight.
C1_Witness ==
    /\ Cardinality(ActiveFlushes) = 1
    /\ last.op = "log"
    /\ Len(logBuffer) >= batchSize

\* C2 (as claimed): a flush that has completed has no send loop left pending,
\* so with no flush in progress no request or backoff sleep is outstanding.
C2_FlushWaitsForAllLoops ==
    \A fi \in AllLoops :
        flushes[fi[1]].status # "sending" => ~Pending(LoopOf(fi))

\* C3: when a loop of the flush in progress ends in a terminal failure, the
\* flush fails in the same step and the whole snapshot, delivered entries
\* included, is put back in front of the live buffer in its original order.
C3_FailedFlushRequeuesSnapshot ==
    [][\A f \in DOMAIN flushes :
          (/\ flushes[f].status = "sending"
           /\ \E i \in DOMAIN flushes[f].loops : flushes'[f].loops[i].phase = "failed")
          => /\ flushes'[f].status = "failed"
             /\ ~isFlushing'
             /\ logBuffer' = flushes[f].snapshot \o logBuffer]_vars

\* A flush has just failed with one entry delivered, and its snapshot stands
\* in front of an entry admitted while it ran.
C3_Witness ==
    /\ last.op = "respond"
    /\ \E f \in DOMAIN flushes :
          /\ flushes[f].status = "failed"
          /\ \E i \in DOMAIN flushes[f].loops : flushes[f].loops[i].phase = "delivered"
          /\ IsPrefix(flushes[f].snapshot, logBuffer)
          /\ Len(logBuffer) > Len(flushes[f].snapshot)
          /\ Len(flushes[f].snapshot) >= 2

C5_SkippedFlushIsNoOp ==
    [][/\ (last'.op \in {"flush", "timer"} /\ (isFlushing \/ logBuffer = <<>>))
          => UNCHANGED <<logBuffer, flushes, isFlushing>>
       /\ (isFlushing \/ last'.op = "respond") => ~FlushStarts]_vars

\* A flush() or timer call has just been skipped with entries waiting.
C5_Witness ==
    /\ last.op \in {"flush", "timer"}
    /\ isFlushing
    /\ logBuffer # <<>>

\* C6: a flush that proceeds takes the buffer contents as its snapshot and
\* leaves the live buffer empty in the step that issues its first requests;
\* the snapshot never changes, and an entry admitted later is in the live
\* buffer and not in the snapshot.
C6_SnapshotBeforeIO ==
    /\ [][/\ FlushStarts =>
               /\ Len(flushes') = Len(flushes) + 1
               /\ flushes'[Len(flushes')].snapshot =
                     (IF Admits THEN Append(logBuffer, AdmittedEntry) ELSE logBuffer)
               /\ logBuffer' = <<>>
               /\ \A i \in DOMAIN flushes'[Len(flushes')].loops :
                     flushes'[Len(flushes')].loops[i].requests = 1
          /\ \A f \in DOMAIN flushes : flushes'[f].snapshot = flushes[f].snapshot
          /\ (Admits /\ ~FlushStarts) => logBuffer' = Append(logBuffer, AdmittedEntry)]_vars
    /\ [](\A f \in ActiveFlushes : Ids(flushes[f].snapshot) \cap Ids(logBuffer) = {})

\* An entry was admitted while a flush was in progress and sits in the buffer.
C6_Witness ==
    /\ last.op = "log"
    /\ logBuffer # <<>>
    /\ \E f \in ActiveFlushes :
          \A a \in Ids(flushes[f].snapshot), b \in Ids(logBuffer) : a < b

\* C7: with no flush in progress and fewer than batchSize entries buffered,
\* an append that does not reach batchSize starts no flush, and the append
\* that reaches batchSize starts exactly one flush, in the same step, whose
\* snapshot is the buffered entries followed by the new one, in order.
C7_BatchSizeAppendsFlushOnce ==
    [][(Admits /\ ~isFlushing /\ Len(logBuffer) < batchSize) =>
          IF Len(logBuffer) + 1 < batchSize
          THEN /\ flushes' = flushes
               /\ ~isFlushing'
               /\ logBuffer' = Append(logBuffer, AdmittedEntry)
          ELSE /\ Len(flushes') = Len(flushes) + 1
               /\ flushes'[Len(flushes')].snapshot = Append(logBuffer, AdmittedEntry)
               /\ Len(flushes'[Len(flushes')].snapshot) = batchSize
               /\ isFlushing'
               /\ logBuffer' = <<>>]_vars

\* The first batchSize entries were admitted from the empty buffer and the
\* last append started the first flush with exactly them.
C7_Witness ==
    /\ last.op = "log"
    /\ admitted = batchSize
    /\ Len(flushes) = 1
    /\ flushes[1].snapshot = [k \in 1..batchSize |-> Redacted(NewEntry(k, "info"))]
    /\ logBuffer = <<>>

\* C8: a send loop issues at most maxRetries+1 requests and sleeps at most
\* maxRetries times; it sleeps only when another attempt follows; and it ends
\* with the delivery-failed error exactly when maxRetries+1 attempts failed
\* retryably.
C8_BoundedRetryLoop ==
    \A fi \in AllLoops :
        LET l == LoopOf(fi) IN
        /\ l.requests <= maxRetries + 1
        /\ l.sleeps <= maxRetries
        /\ l.phase = "sleeping" => (l.attempt < maxRetries /\ l.sleeps = l.requests)
        /\ l.phase # "sleeping" => l.sleeps = l.requests - 1
        /\ l.fails = maxRetries + 1 <=> l.error = "exhausted"
        /\ l.error = "exhausted" => l.phase = "failed"

\* A loop has used every attempt and ended with the delivery-failed error.
C8_Witness ==
    \E fi \in AllLoops :
        /\ LoopOf(fi).error = "exhausted"
        /\ LoopOf(fi).requests = maxRetries + 1
        /\ LoopOf(fi).sleeps = maxRetries

\* C9: an entry delivered after k retryable failures was delivered by its
\* (k+1)-th request, after exactly k backoff sleeps, with k <= maxRetries.
C9_DeliveredAfterKFailures ==
    \A fi \in AllLoops :
        LET l == LoopOf(fi) IN
        l.phase = "delivered" =>
            /\ l.requests = l.fails + 1
            /\ l.sleeps = l.fails
            /\ l.fails <= maxRetries

\* Two retryable failures, then delivered: three requests and two sleeps.
C9_Witness ==
    \E fi \in AllLoops :
        /\ LoopOf(fi).phase = "delivered"
        /\ LoopOf(fi).fails = 2
        /\ LoopOf(fi).requests = 3
        /\ LoopOf(fi).sleeps = 2

\* C10: a 4xx response or a request-setup error ends the loop at once: no
\* further request, no sleep, the loop failed for good, its flush failed and
\* the snapshot re-queued.
C10_ClientErrorIsTerminal ==
    [][\A fi \in AllLoops :
          LET l == LoopOf(fi)
              m == flushes'[fi[1]].loops[fi[2]]
          IN /\ (/\ l.phase = "inflight"
                 /\ m # l
                 /\ last'.op = "respond"
                 /\ (IsClientError(last'.r) \/ IsSetupError(last'.r)))
                => /\ m.phase = "failed"
                   /\ m.requests = l.requests
                   /\ m.sleeps = l.sleeps
                   /\ flushes'[fi[1]].status = "failed"
                   /\ flushes[fi[1]].status = "sending"
                        => logBuffer' = flushes[fi[1]].snapshot \o logBuffer
             /\ l.phase = "failed" => m = l]_vars

\* The first request of a loop got a 403: one request, no sleep, the flush
\* failed and its snapshot is back at the front of the buffer.
C10_Witness ==
    /\ last.op = "respond"
    /\ IsClientError(last.r)
    /\ \E fi \in AllLoops :
          /\ LoopOf(fi).error = "client"
          /\ LoopOf(fi).requests = 1
          /\ LoopOf(fi).sleeps = 0
          /\ flushes[fi[1]].status = "failed"
          /\ IsPrefix(flushes[fi[1]].snapshot, logBuffer)

\* C11: delivery is at-least-once: the whole snapshot of a failed flush,
\* the entries that were acknowledged with a 2xx included, heads the snapshot
\* of the next flush and is sent again.
C11_FailedSnapshotIsResent ==
    \A f \in DOMAIN flushes :
        (f + 1 \in DOMAIN flushes /\ flushes[f].status = "failed") =>
            IsPrefix(flushes[f].snapshot, flushes[f + 1].snapshot)

\* An entry acknowledged in a failed flush is acknowledged again in the next.
C11_Witness ==
    \E f \in DOMAIN flushes : \E i \in DOMAIN flushes[f].loops :
        /\ f + 1 \in DOMAIN flushes
        /\ flushes[f].status = "failed"
        /\ flushes[f].loops[i].phase = "delivered"
        /\ i \in DOMAIN flushes[f + 1].loops
        /\ flushes[f + 1].snapshot[i].id = flushes[f].snapshot[i].id
        /\ flushes[f + 1].loops[i].phase = "delivered"

\* C12: the backoff delay never exceeds 60000 ms, and the delay of attempt
\* n+1 is at least the delay of attempt n, whatever the two jitter values.
C12_BackoffMonotoneAndCapped ==
    /\ [](last.op = "getExponentialBackoffDelay" => last.result <= 60000 * DelayUnit)
    /\ [][(/\ last.op = "getExponentialBackoffDelay"
           /\ last'.op = "getExponentialBackoffDelay"
           /\ last'.initialDelayMs = last.initialDelayMs
           /\ last'.retryCount = last.retryCount + 1)
          => last'.result >= last.result]_vars

\* A later attempt with a non-zero jitter whose uncapped delay is over the cap.
C12_Witness ==
    /\ last.op = "getExponentialBackoffDelay"
    /\ last.retryCount >= 1
    /\ last.random > 0
    /\ last.initialDelayMs * Pow2(last.retryCount) > 60000
    /\ last.result = 60000 * DelayUnit

\* C19: for all levels L and minimums M, shouldLog(L, M) is true exactly
\* when L is at or after M in the order TRACE < DEBUG < INFO < WARN < ERROR <
\* FATAL.
C19_ShouldLogIsRankOrder ==
    last.op = "shouldLog" =>
        (last.result <=> Rank(last.currentLevel) >= Rank(last.minLevel))

\* shouldLog was called with a level equal to the minimum and accepted it.
C19_Witness ==
    /\ last.op = "shouldLog"
    /\ last.currentLevel = "warn"
    /\ last.minLevel = "warn"
    /\ last.result

\* C13: once shutdown() has been called the instance stays shutting down and
\* no log call appends an entry: a log call leaves the buffer as it was and
\* no step admits an entry.
C13_NoIngestionAfterShutdown ==
    [][isShuttingDown =>
          /\ isShuttingDown'
          /\ ~Admits
          /\ (last'.op = "log" => logBuffer' = logBuffer)]_vars

\* A log call at an admissible level was made after shutdown(), with room
\* left in the model's budget of admitted entries.
C13_Witness ==
    /\ isShuttingDown
    /\ last.op = "log"
    /\ shouldLog(last.level, minLogLevel)
    /\ admitted < MaxLogs

\* C14: after shutdown() has been called no flush timer is armed, for every
\* interleaving of init(), its wait for the remote configuration included,
\* and shutdown().
C14_NoTimerAfterShutdown == isShuttingDown => ~flushTimer

\* C15: when a shutdown() call has run, every entry that was in the buffer
\* when it was called has had a delivery request issued, whether or not
\* another flush was in progress.  (A call whose flush proceeds empties the
\* buffer into the snapshot; a call whose flush is skipped resolves at once
\* with the buffer as it was.)
C15_ShutdownSendsBuffered ==
    last.op = "shutdown" => Ids(logBuffer) \subseteq RequestedIds

\* C18: every entry in the buffer or in a flush snapshot was logged at a
\* level that ranks at or above the minimum level, and a log call below the
\* minimum leaves the buffer, the audit trail and the flush state unchanged.
C18_BelowMinimumNeverAdmitted ==
    /\ [](\A f \in DOMAIN flushes : \A k \in DOMAIN flushes[f].snapshot :
             Rank(flushes[f].snapshot[k].level) >= Rank(minLogLevel))
    /\ [](\A k \in DOMAIN logBuffer : Rank(logBuffer[k].level) >= Rank(minLogLevel))
    /\ [][(last'.op = "log" /\ Rank(last'.level) < Rank(minLogLevel)) =>
            UNCHANGED <<logBuffer, sanitizer, flushes, isFlushing, admitted>>]_vars

\* A log call below the minimum was made on a live instance whose buffer
\* holds an entry and whose budget of admitted entries is not used up.
C18_Witness ==
    /\ last.op = "log"
    /\ Rank(last.level) < Rank(minLogLevel)
    /\ ~isShuttingDown
    /\ logBuffer # <<>>
    /\ admitted < MaxLogs

\* C17: constructing without apiKey or without projectId throws; nothing has
\* been requested, the flush timer is not armed, the buffer is empty and no
\* sanitizer was created, and nothing runs on the instance afterwards.
C17_ConstructionFailsFirst ==
    /\ (last.op = "construct" /\
          "undefined" \in {last.config.apiKey, last.config.projectId})
        => constructed = "threw"
    /\ constructed = "threw" =>
          /\ last.op = "construct"
          /\ ~flushTimer
          /\ ~initPending
          /\ flushes = <<>>
          /\ logBuffer = <<>>
          /\ sanitizer = Undefined

\* The constructor threw for a configuration with an API key and no project id.
C17_Witness ==
    /\ constructed = "threw"
    /\ last.config.apiKey = "set"
    /\ last.config.projectId = "undefined"

C20_SanitizerFailsOpen ==
    [][(last'.op = "log" /\ last'.fault # "none" /\ Admits) =>
          LET original == [id |-> admitted + 1, level |-> last'.level,
                           message |-> "a@b.co", context |-> context]
              trail == sanitizer.auditTrail
              trail2 == sanitizer'.auditTrail
          IN /\ IF FlushStarts
                THEN flushes'[Len(flushes')].snapshot = Append(logBuffer, original)
                ELSE logBuffer' = Append(logBuffer, original)
             /\ IF sanitizer.auditEnabled
                THEN /\ Len(trail2) = Len(trail) + 1
                     /\ SubSeq(trail2, 1, Len(trail)) = trail
                     /\ trail2[Len(trail2)].rulesApplied = <<"ERROR">>
                     /\ trail2[Len(trail2)].error = last'.fault
                ELSE trail2 = trail]_vars

\* With auditing enabled, an entry the sanitizer threw on was delivered
\* unredacted and the audit trail holds its ERROR entry.
C20_Witness ==
    /\ sanitizer.auditEnabled
    /\ \E f \in DOMAIN flushes : \E i \in DOMAIN flushes[f].loops :
          /\ flushes[f].loops[i].phase = "delivered"
          /\ flushes[f].snapshot[i].message = "a@b.co"
          /\ \E k \in DOMAIN sanitizer.auditTrail :
                /\ sanitizer.auditTrail[k].id = flushes[f].snapshot[i].id
                /\ sanitizer.auditTrail[k].rulesApplied = <<"ERROR">>

\* C30: the live buffer holds its entries in the order in which they were
\* admitted, in every reachable state: identities, which are handed out in
\* admission order, increase along the buffer.
C30_BufferInAdmissionOrder ==
    \A j \in DOMAIN logBuffer : \A k \in DOMAIN logBuffer :
        j < k => logBuffer[j].id < logBuffer[k].id

\* A failed flush has re-queued its snapshot in front of an entry that was
\* admitted while the flush was in flight.
C30_Witness ==
    /\ last.op = "respond"
    /\ \E f \in DOMAIN flushes :
          /\ flushes[f].status = "failed"
          /\ Len(logBuffer) > Len(flushes[f].snapshot)
          /\ IsPrefix(flushes[f].snapshot, logBuffer)

\* C28: the sanitize path never populates the retention cache: with log
\* calls only (nothing calls shouldRetainData) the cache is empty, the
\* cleanupExpiredData() call of shutdown() removed nothing, and a call made
\* now would return 0.
C28_SanitizeLeavesCacheEmpty ==
    /\ constructed = "ok" => sanitizer.retentionCache = <<>>
    /\ last.op = "shutdown" => last.cleaned = 0
    /\ constructed = "ok" => cleanupExpiredData(sanitizer, now).count = 0

\* shutdown() ran its cleanup after two entries had gone through the sanitizer.
C28_Witness ==
    /\ last.op = "shutdown"
    /\ Len(sanitizer.auditTrail) >= 2
    /\ admitted >= 2

Kids(heap, n) == {heap[n].kids[i].ref : i \in DOMAIN heap[n].kids}

\* The values reachable from value n of a heap in one or more steps.
Reach(heap, n) ==
    LET RECURSIVE Grow(_, _)
        Grow(set, k) ==
            IF k = 0 THEN set
            ELSE Grow(set \cup UNION {Kids(heap, m) : m \in set}, k - 1)
    IN Grow(Kids(heap, n), Len(heap))

\* The payload has a value, reachable from the root, that contains itself.
HasCycle(heap) == \E n \in {1} \cup Reach(heap, 1) : n \in Reach(heap, n)

RECURSIVE HasSentinel(_)
HasSentinel(tree) ==
    \/ tree.kind = "string" /\ tree.text = CircularReference
    \/ \E i \in DOMAIN tree.kids : HasSentinel(tree.kids[i].value)

\* C21: sanitizing a payload ends without exhausting the stack, whatever
\* the graph of objects and arrays, and a payload with a cycle comes out with
\* the circular-reference sentinel in it.
C21_SanitizeEndsOnEveryGraph ==
    last.op = "sanitizeObject" =>
        /\ ~last.overflow
        /\ HasCycle(last.heap) => HasSentinel(last.out)

\* The entry {message: "a@b.com", data: {ssn: "123-45-6789"}}.
ScenarioData == <<Node("object", <<2>>), StringNode(Ssn)>>

\* C22: with the default configuration the full pipeline turns the entry
\* {message: "a@b.com", data: {ssn: "123-45-6789"}} into one with the message
\* "[EMAIL_REDACTED]" and data.ssn "[SSN_REDACTED]".
C22_ScenarioRedacted ==
    (last.op = "sanitizeLogEntry" /\ last.message = Email /\ last.heap = ScenarioData) =>
        /\ last.result.message = EmailRedacted
        /\ last.result.data.kids[1].value.text = SsnRedacted

CachedIds(s) == {s.retentionCache[k].id : k \in DOMAIN s.retentionCache}

\* The cached ids whose age at time t or whose size is over the limit of the
\* policy of sanitizer s.
OverLimit(s, t) ==
    {s.retentionCache[k].id : k \in
        {j \in DOMAIN s.retentionCache :
            \/ t - s.retentionCache[j].timestamp > s.retentionPolicy.maxAge
            \/ s.retentionCache[j].size > s.retentionPolicy.maxSize}}

\* C27: shouldRetainData(id, timestamp, size) returns true exactly when
\* now - timestamp is at most maxAge and size is at most maxSize, and puts
\* the id in the retention cache only then; cleanupExpiredData() removes
\* exactly the cached ids over the age or size limit of the current policy,
\* returns how many they were, and leaves none of them in the cache.
C27_RetentionFollowsPolicy ==
    [][/\ last'.op = "shouldRetainData" =>
            LET within == /\ now - last'.timestamp <= sanitizer.retentionPolicy.maxAge
                          /\ last'.size <= sanitizer.retentionPolicy.maxSize
            IN /\ last'.result = within
               /\ within =>
                    /\ \E k \in DOMAIN sanitizer'.retentionCache :
                          sanitizer'.retentionCache[k] =
                              [id |-> last'.dataId, timestamp |-> last'.timestamp,
                               size |-> last'.size]
                    /\ CachedIds(sanitizer') = CachedIds(sanitizer) \cup {last'.dataId}
               /\ ~within => sanitizer'.retentionCache = sanitizer.retentionCache
       /\ last'.op = "cleanupExpiredData" =>
            /\ CachedIds(sanitizer') = CachedIds(sanitizer) \ OverLimit(sanitizer, now)
            /\ last'.count = Cardinality(OverLimit(sanitizer, now))
            /\ OverLimit(sanitizer', now) = {}
            /\ \A k \in DOMAIN sanitizer'.retentionCache :
                  \E j \in DOMAIN sanitizer.retentionCache :
                      sanitizer'.retentionCache[k] = sanitizer.retentionCache[j]
      ]_vars

\* cleanupExpiredData removed one id for its age or size and kept another.
C27_Witness ==
    /\ last.op = "cleanupExpiredData"
    /\ last.count = 1
    /\ Len(sanitizer.retentionCache) = 1

\* The step appends a entries to the audit trail and drops, from its front,
\* as many of the oldest as no longer fit.
AppendsEvictingOldest(a) ==
    LET old == sanitizer.auditTrail
        new == sanitizer'.auditTrail
        dropped == IF Len(old) + a > AuditLimit THEN Len(old) + a - AuditLimit ELSE 0
    IN /\ Len(new) = Len(old) + a - dropped
       /\ SubSeq(new, 1, Len(old) - dropped) = SubSeq(old, dropped + 1, Len(old))

\* C24: the audit trail never holds more than 1000 entries, whatever
\* sanitize, failing sanitize and cleanupExpiredData calls are made; on a full
\* trail an append drops the oldest entries, so that the trail is always the
\* most recent entries in their order.
C24_AuditTrailBounded ==
    /\ [](Len(sanitizer.auditTrail) <= AuditLimit)
    /\ [][\E a \in 0..Cardinality(DataIds) :
            /\ AppendsEvictingOldest(a)
            /\ last'.op = "sanitizeLogEntry" => a = 1
            /\ last'.op = "cleanupExpiredData" => a = last'.count]_vars

\* A failing sanitize call appended to the full trail, which dropped its
\* oldest entry.
C24_Witness ==
    /\ last.op = "sanitizeLogEntry"
    /\ last.fault \in Faults
    /\ Len(sanitizer.auditTrail) = AuditLimit
    /\ sanitizer.auditTrail[1].id = 2
    /\ sanitizer.auditTrail[AuditLimit].error \in Faults

\* The list without its first rule of the given description.
WithoutFirst(list, description) ==
    LET hits == {k \in DOMAIN list : list[k].description = description}
        first == CHOOSE k \in hits : \A j \in hits : k <= j
    IN [k \in 1..(Len(list) - 1) |-> IF k < first THEN list[k] ELSE list[k + 1]]

\* The text after the rules of the list were applied one after the other.
RECURSIVE Rewritten(_, _)
Rewritten(text, list) ==
    IF list = <<>> THEN text
    ELSE Rewritten(IF text \in list[1].matches THEN list[1].replacement ELSE text,
                   Tail(list))

\* C25: custom rules are applied after all built-in rules, in the order
\* they were registered; addCustomRule and removeCustomRule change the list
\* of custom rules only, never the built-in rules, and removeCustomRule of a
\* description no custom rule has returns false and changes nothing.
C25_CustomRulesAfterBuiltIns ==
    [][/\ last'.op = "addCustomRule" =>
            /\ CustomRules(sanitizer)' = Append(CustomRules(sanitizer), last'.rule)
            /\ sanitizer'.rules = sanitizer.rules
            /\ Rules(sanitizer)' = PII_PATTERNS
       /\ last'.op = "removeCustomRule" =>
            /\ sanitizer'.rules = sanitizer.rules
            /\ Rules(sanitizer)' = PII_PATTERNS
            /\ IF \E k \in DOMAIN CustomRules(sanitizer) :
                     CustomRules(sanitizer)[k].description = last'.description
               THEN /\ last'.result = TRUE
                    /\ CustomRules(sanitizer)' =
                          WithoutFirst(CustomRules(sanitizer), last'.description)
               ELSE /\ last'.result = FALSE
                    /\ sanitizer' = sanitizer
                    /\ defaults' = defaults
       /\ last'.op = "sanitizeString" =>
            last'.text = Rewritten(Rewritten(last'.input, PII_PATTERNS),
                                   CustomRules(sanitizer))
      ]_vars

\* "mask" was registered before "hide": the e-mail address was redacted by
\* the built-in rule, masked, then hidden.
C25_Witness ==
    /\ last.op = "sanitizeString"
    /\ last.input = Email
    /\ CustomRules(sanitizer) = <<MaskRule, HideRule>>
    /\ last.text = Hidden

\* C26: no addCustomRule, removeCustomRule or updateConfig call on a
\* sanitizer changes DEFAULT_SANITIZATION_CONFIG, its customRules list
\* included, or the rules another sanitizer built with the defaults applies.
C26_DefaultsNeverMutated ==
    /\ defaults = NewDefaults
    /\ AllRules(NewSanitizer(TRUE)) = PII_PATTERNS

\* The entries held in the buffer and in the snapshots of the flushes.
HeldEntries ==
    {logBuffer[k] : k \in DOMAIN logBuffer}
    \cup UNION {{flushes[f].snapshot[k] : k \in DOMAIN flushes[f].snapshot} :
                    f \in DOMAIN flushes}

\* C29: setContext merges its argument into the global context, the keys
\* of the argument winning; an entry carries the context as it was when the
\* entry was logged, and no later setContext call changes the context of an
\* entry in the buffer or in a flush snapshot.
C29_ContextSnapshotAtEmit ==
    [][/\ last'.op = "setContext" =>
            /\ DOMAIN context' = DOMAIN context \cup DOMAIN last'.ctx
            /\ \A k \in DOMAIN context' :
                  context'[k] = IF k \in DOMAIN last'.ctx THEN last'.ctx[k] ELSE context[k]
            /\ HeldEntries' = HeldEntries
       /\ Admits => \E e \in HeldEntries' : e.id = admitted' /\ e.context = context
       /\ \A e \in HeldEntries : \A e2 \in HeldEntries' :
             e2.id = e.id => e2.context = e.context
      ]_vars

\* setContext replaced the user and added the session after an entry was
\* logged with the first user; the entry still has the context of its time.
C29_Witness ==
    /\ last.op = "setContext"
    /\ context = [user |-> "u2", session |-> "s1"]
    /\ \E e \in HeldEntries : e.context = [user |-> "u1"]

\* The send loops with a request in flight or a backoff sleep to wake from.
OutstandingLoops == {fi \in AllLoops : Pending(LoopOf(fi))}

\* C31: at no time are more than batchSize send loops outstanding.
C31_FanOutWithinBatchSize == Cardinality(OutstandingLoops) <= batchSize

\* C32: after pushContext(c) and then popContext(), and after
\* withContext(c, fn) returned or threw, the global context is the context
\* from before the push: the keys c brought in are gone.
C32_ContextRestored ==
    /\ (last.op = "popContext" /\ last.restored) => context = last.saved
    /\ last.op = "withContext" => context = last.before

\* How many times shouldAllow returned true for the key at the times from t
\* on that are less than timeWindow after t.
GrantedWithin(key, t) ==
    Cardinality({i \in DOMAIN Granted[key] :
                    Granted[key][i] >= t /\ Granted[key][i] - t < timeWindow})

\* C33: for every key and every interval shorter than timeWindow,
\* shouldAllow returned true at most maxEvents times in it; and a call that
\* returns false leaves the limiter as it was.
C33_AtMostMaxEventsPerWindow ==
    /\ [](\A key \in EventKeys : \A t \in 0..MaxNow : GrantedWithin(key, t) <= maxEvents)
    /\ [][(last'.op = "shouldAllow" /\ ~last'.result) => events' = events]_vars

\* A call was refused at the limit, and after the window had moved on a call
\* for the same key was allowed again.
C33_Witness ==
    /\ last.op = "shouldAllow"
    /\ last.result
    /\ Len(Granted[last.key]) > maxEvents
    /\ now >= timeWindow

\* C34: the error normalizer never throws: for an absent value, a string,
\* an exception, an event-like object, a generic object (one without name,
\* message and toString included) and any other primitive it returns a name
\* and a message, chosen in that order of priority.
C34_NormalizerNeverThrows ==
    last.op = "extractErrorDetails" =>
        /\ ~last.result.threw
        /\ last.error.kind = "absent" => last.result.name = "UnknownError"
        /\ (last.error.kind = "string" /\ last.error.text # "") =>
              /\ last.result.name = "StringError"
              /\ last.result.message = last.error.text
        /\ (last.error.kind = "exception" /\ last.error.name # "") =>
              last.result.name = last.error.name

\* The ids of the entries in the live buffer or in the snapshot of a flush
\* in progress.
HeldIds == Ids(logBuffer) \cup UNION {Ids(flushes[f].snapshot) : f \in ActiveFlushes}

\* The ids of the snapshots of the flushes that completed with every request
\* of theirs answered 2xx.
AcknowledgedIds ==
    UNION {Ids(flushes[f].snapshot) :
              f \in {g \in DOMAIN flushes :
                        /\ flushes[g].status = "ok"
                        /\ \A i \in DOMAIN flushes[g].loops :
                              flushes[g].loops[i].phase = "delivered"}}

\* C35: every admitted entry is in the live buffer or in the snapshot of
\* the flush in progress, unless a flush whose whole snapshot was acknowledged
\* with 2xx has completed with it.
C35_NoAdmittedEntryLost ==
    \A id \in 1..admitted : id \in HeldIds \/ id \in AcknowledgedIds

\* After a flush failed and another delivered its whole snapshot, an entry has
\* left the buffer while a later one is still held.
C35_Witness ==
    /\ \E f \in DOMAIN flushes : flushes[f].status = "failed"
    /\ \E id \in 1..admitted : id \notin HeldIds /\ id \in AcknowledgedIds
    /\ \E id \in 1..admitted : id \in HeldIds

\* The ids of the entries a request of which was answered 2xx.
DeliveredIds ==
    {flushes[fi[1]].snapshot[fi[2]].id : fi \in {gi \in AllLoops : LoopOf(gi).phase = "delivered"}}

\* The endpoint answered the last request with 2xx, if a request was the last
\* thing to be answered.
Healthy == last.op = "respond" => IsSuccess(last.r)

\* The run has come to the end of what is explored of it: a flush or a retry
\* the code would start is beyond MaxFlushes or MaxRequests.
BoundReached ==
    \/ /\ ~FlushGuard(logBuffer)
       /\ \/ Len(flushes) >= MaxFlushes
          \/ TotalRequests(flushes) + Len(logBuffer) > MaxRequests
    \/ /\ \E fi \in AllLoops : LoopOf(fi).phase = "sleeping"
       /\ TotalRequests(flushes) >= MaxRequests

\* C36: with the timer firing for ever, every request answered and the
\* endpoint answering 2xx from some point on, again and again the buffer is
\* empty with every entry admitted so far delivered (an entry once delivered
\* stays so), though no flush() call skipped during a flush is made up for.
C36_EventuallyDelivered ==
    ([]~BoundReached /\ <>[]Healthy) =>
        []<>(logBuffer = <<>> /\ 1..admitted \subseteq DeliveredIds)

\* An entry admitted while a flush was in progress, when the size-triggered
\* flush() of its append was skipped, has been delivered by a later flush.
C36_Witness ==
    /\ Len(flushes) >= 2
    /\ flushes[Len(flushes)].status = "ok"
    /\ \E k \in DOMAIN flushes[Len(flushes)].snapshot :
          flushes[Len(flushes)].snapshot[k].id \notin Ids(flushes[1].snapshot)
    /\ logBuffer = <<>>
    /\ 1..admitted \subseteq DeliveredIds

\* C37: sanitizeLogEntry leaves the entry it is given as it was: after a
\* call, one that fails included, the caller's message and the objects and
\* arrays of its payload hold what they held before.
C37_OriginalUntouched ==
    last.op = "sanitizeLogEntry" =>
        last.result.caller = Append(last.heap, EntryNode(last.message, 1))

\* A call redacted the message and the payload of its copy.
C37_Witness ==
    /\ last.op = "sanitizeLogEntry"
    /\ ~last.result.threw
    /\ last.message = Email
    /\ last.result.message = EmailRedacted
    /\ last.heap[2] = StringNode(Ssn)
    /\ last.result.caller[2] = StringNode(Ssn)
    /\ last.result.data.kids[1].value.text # Ssn

\* C38: with sanitization and auditing enabled a sanitizeLogEntry call
\* appends exactly one audit entry, the one of the path it took (success or
\* failure); with auditing or sanitization disabled it leaves the trail as
\* it was.
C38_OneAuditEntryPerCall ==
    [][admitted' # admitted =>
          IF sanitizer.enabled /\ sanitizer.auditEnabled
          THEN /\ AppendsEvictingOldest(1)
               /\ LET e == sanitizer'.auditTrail[Len(sanitizer'.auditTrail)]
                  IN /\ e.operation = "sanitize"
                     /\ e.id = admitted'
                     /\ e.error = last'.fault
          ELSE sanitizer'.auditTrail = sanitizer.auditTrail
      ]_vars

\* A sanitize call that succeeded and then one that failed each left its one
\* entry.
C38_Witness ==
    /\ last.op = "sanitizeLogEntry"
    /\ sanitizer.enabled /\ sanitizer.auditEnabled
    /\ admitted = SanitizedBefore + 2
    /\ Len(sanitizer.auditTrail) = AuditLimit
    /\ sanitizer.auditTrail[AuditLimit - 1].id = admitted - 1
    /\ sanitizer.auditTrail[AuditLimit - 1].error = "none"
    /\ sanitizer.auditTrail[AuditLimit].id = admitted
    /\ sanitizer.auditTrail[AuditLimit].error \in Faults

====
